---- MODULE Spec2Model ----
(***************************************************************************)
(* Prepared-statement lifecycle of gosqlite: Conn.Prepare, Stmt.Finalize,  *)
(* Stmt.finalize, Stmt.Next and the per-connection statement cache, and    *)
(* the marshalling of values: Stmt.Bind, Stmt.Scan and their variants.     *)
(*                                                                         *)
(* A Stmt object is identified by a number in Ids.  Every Stmt is created  *)
(* by one compilation and owns the native handle created by it, so the     *)
(* native handle of Stmt s is identified by s as well.                     *)
(***************************************************************************)
EXTENDS Integers, Sequences, FiniteSets, TLC

\* ---------------------------------------------------------------- bounds
MaxStmts == 3      \* Stmt objects (= compilations) in one behaviour
CacheSize == 2     \* capacity N of the statement cache
MaxUncached == 1   \* statements whose Cacheable field the caller has cleared
MaxRows == 2       \* rows produced by a row-returning statement
MaxFaults == 1     \* native calls that return an error in one behaviour
MaxStale == 1      \* Finalize calls on a statement the caller no longer holds
CIntBits == 3      \* bits of a C.int; a sqlite3_int64 has twice as many
MaxOpenRows == 2   \* Rows of one driver statement that are open at a time
MaxChanges == 2    \* rows the connection reports as changed
MaxRowid == 3      \* the largest rowid the connection reports
MaxBlobBytes == 3  \* bytes of the largest BLOB
MaxBuf == 2        \* bytes of the largest buffer read into or written from
MaxSeek == 4       \* the farthest offset a Seek leaves, either way
MaxTextLen == 24   \* bytes of the longest text scanned as a time

Ids == 1..MaxStmts

\* SQL texts as byte sequences; byte 0 stands for a trailing space, so
\* <<1>> and <<1, 0>> differ only by whitespace.
Texts == {<<1>>, <<1, 0>>, <<2>>}

\* Native result codes, as far as the code distinguishes them.
RvOk == "SQLITE_OK"
RvErr == "SQLITE_ERROR"
RvMisuse == "SQLITE_MISUSE"
RvRow == "SQLITE_ROW"
RvDone == "SQLITE_DONE"
Rvs == {RvOk, RvErr}

\* ------------------------------------------------------------- values
\* A value of the engine (a bound parameter or a column of the current
\* row): its storage class, n for an Integer and for a Float (in tenths),
\* b for the bytes of a Text or a Blob.
StorageNull == [class |-> "Null", n |-> 0, b |-> <<>>]
StorageInteger(i) == [class |-> "Integer", n |-> i, b |-> <<>>]
StorageFloat(t) == [class |-> "Float", n |-> t, b |-> <<>>]
StorageText(b) == [class |-> "Text", n |-> 0, b |-> b]
StorageBlob(b) == [class |-> "Blob", n |-> 0, b |-> b]

StorageValues ==
    {StorageNull, StorageInteger(0), StorageInteger(1), StorageFloat(15),
     StorageText(<<>>), StorageText(<<97>>), StorageBlob(<<>>),
     StorageBlob(<<7>>)}

\* Parameters and columns of a statement, by its text: texts starting with
\* byte 1 read like SELECT :a AS x FROM t WHERE :b, texts starting with
\* byte 3 like SELECT :a AS x, :b AS y FROM t, the others like
\* INSERT INTO t VALUES (:a).
ParamNames(sql) ==
    IF Len(sql) > 0 /\ sql[1] \in {1, 3} THEN <<":a", ":b">> ELSE <<":a">>

ColNames(sql) ==
    IF Len(sql) > 0 /\ sql[1] = 1 THEN <<"x">>
    ELSE IF Len(sql) > 0 /\ sql[1] = 3 THEN <<"x", "y">>
    ELSE <<>>

\* The bindings of a newly compiled statement.
Unbound(sql) == [i \in 1..Len(ParamNames(sql)) |-> StorageNull]

\* A destination the caller passes to a scan: its Go type, for a double
\* pointer whether the outer pointer is nil, and the value pointed to.  A
\* new destination holds a value no scan produces.
NewDest(kind) ==
    [kind |-> kind, outer |-> "set", n |-> 9, b |-> <<9>>]

VARIABLES
    stmts,     \* Ids -> the Go Stmt object
    native,    \* Ids -> the engine's view of the handle compiled for the Stmt
    cache,     \* the cache's idle list, most recently used first
    out,       \* Ids -> number of callers holding the Stmt as returned by Prepare
    db,        \* TRUE while the connection's native handle is not nil
    seen,      \* Ids -> rows reported by Next since the statement last restarted
    used,      \* native errors and stale Finalize calls so far
    last,      \* what the last call did and returned
    dst,       \* the caller's scan destination
    cfg,       \* the package's settings (NullIfEmptyString, NullIfZeroTime)
    drv,       \* Ids -> the database/sql driver's stmt that wraps the Stmt
    blob,      \* the incremental BLOB handle
    res        \* what the last ExecDml or Insert returned

vars == <<stmts, native, cache, out, db, seen, used, last, dst, cfg, drv, blob,
          res>>

\* ------------------------------------------------------------- helpers
Min(a, b) == IF a < b THEN a ELSE b

RemoveAt(q, i) == SubSeq(q, 1, i - 1) \o SubSeq(q, i + 1, Len(q))

InCache(s) == \E i \in 1..Len(cache) : cache[i] = s

\* Rows the engine produces for a text: texts starting with byte 1 or 3
\* are queries with MaxRows rows, the others produce none.
NRows(sql) == IF Len(sql) > 0 /\ sql[1] \in {1, 3} THEN MaxRows ELSE 0

\* The environment's budget: n more native errors happen in this step.
Faults(n) ==
    /\ used.faults + n <= MaxFaults
    /\ used' = [used EXCEPT !.faults = @ + n]

Bad(rv) == IF rv = RvOk \/ rv = RvRow \/ rv = RvDone THEN 0 ELSE 1

\* A map from names to indexes: nil until made, then the set m of its
\* <<name, index>> entries.
NilMap == [nil |-> TRUE, m |-> {}]

MakeMap(entries) == [nil |-> FALSE, m |-> entries]

\* columnCount and bindParameterCount are -1 until cached.  sql is the
\* text the handle was compiled from; the field s.sql is empty until the
\* first call of s.SQL() copies the text from the handle (sqlSet).
NoStmtObj == [made |-> FALSE, ret |-> FALSE, stmt |-> "nil", sql |-> <<>>,
              Cacheable |-> FALSE, columnCount |-> -1,
              bindParameterCount |-> -1, cols |-> NilMap, params |-> NilMap,
              CheckTypeMismatch |-> FALSE, sqlSet |-> FALSE]

\* binds: the value bound to each parameter, in parameter order.
NoNative == [state |-> "none", pos |-> 0, binds |-> <<>>]

\* What a call did: the Stmt returned by Prepare or the Stmt the call was
\* made on (0: none); the error returned ("ok": nil, "native": wraps a
\* native result code, "closed", "compile", "bind"); for Next whether there
\* is a row; the state of the handle the call passed to the engine ("none":
\* no native call on a statement handle); whether Log was called; the Stmt
\* the cache evicted (0: none); the native result code the error wraps
\* ("": none); for a scan the wasNull result; the number of native bind
\* and column value calls made; the number of sqlite3_step calls made; the
\* rows the row callback of Select was invoked on, in order; where the
\* SQL() of the error returned by a failed Prepare takes the text from; the
\* layout a scan into a time.Time parsed a text with; the position of the
\* argument a bind failed at (0: none).
NoLayout == [form |-> "", sep |-> "", read10 |-> FALSE]

NoLast == [op |-> "Init", s |-> 0, err |-> "ok", row |-> FALSE,
           nat |-> "none", logged |-> FALSE, evicted |-> 0, code |-> "",
           null |-> FALSE, vcalls |-> 0, steps |-> 0, calls |-> <<>>,
           errsql |-> "", layout |-> NoLayout, at |-> 0]

Returned(op, s, err, row, nat, logged) ==
    [op |-> op, s |-> s, err |-> err, row |-> row, nat |-> nat,
     logged |-> logged, evicted |-> 0, code |-> "", null |-> FALSE,
     vcalls |-> 0, steps |-> 0, calls |-> <<>>, errsql |-> "",
     layout |-> NoLayout, at |-> 0]

\* The driver's stmt: the fields rowsRef and pendingClose; finalizes
\* counts the calls of s.s.Finalize() made through it, open the Rows that
\* Query has returned and that have not been closed, closed tells whether
\* some Rows of the statement has been closed.
\* The result of ExecDml or Insert: the number returned and the error.
NoResult == [op |-> "", n |-> 0, err |-> "ok"]

NoDriverStmt == [rowsRef |-> FALSE, pendingClose |-> FALSE, finalizes |-> 0,
                 open |-> 0, closed |-> FALSE]

\* No native read or write of the BLOB has been made.
NoIo == [op |-> "", off |-> 0, n |-> 0, of |-> 0]

\* A BlobReader: bl is the native handle, size is -1 until Size has asked
\* the engine, offset is where the next Read or Write starts.  bytes is
\* the size of the BLOB the handle is open on; io is the last native read
\* or write: the offset and the byte count passed and the size the BLOB
\* had; op, n and err are the last call and what it returned.
NoBlob == [bl |-> "nil", size |-> -1, offset |-> 0, bytes |-> 0, io |-> NoIo,
           op |-> "", n |-> 0, err |-> "ok"]

Init ==
    /\ stmts = [s \in Ids |-> NoStmtObj]
    /\ native = [s \in Ids |-> NoNative]
    /\ cache = <<>>
    /\ out = [s \in Ids |-> 0]
    /\ db = TRUE
    /\ seen = [s \in Ids |-> 0]
    /\ used = [faults |-> 0, stale |-> 0]
    /\ last = NoLast
    /\ dst = NewDest("*int")
    /\ cfg = [NullIfEmptyString |-> TRUE, NullIfZeroTime |-> TRUE]
    /\ drv = [s \in Ids |-> NoDriverStmt]
    /\ blob = NoBlob
    /\ res = NoResult

\* ------------------------------------------------------ native engine
\* A sqlite3_finalize that leaves the handle alive.
NativeFinalize_Keeps(n, s) == n

\* sqlite3_finalize: the handle is destroyed whatever result code is
\* returned.
NativeFinalize(n, s) ==
    [n EXCEPT ![s].state = "dead", ![s].pos = 0]

\* sqlite3_reset: back to the first row; the bindings stay.
NativeReset(n, s) == [n EXCEPT ![s].pos = 0]

\* sqlite3_clear_bindings: every parameter is Null again.
NativeClearBindings(n, s) ==
    [n EXCEPT ![s].binds = [i \in 1..Len(@) |-> StorageNull]]

\* Result codes sqlite3_step can return for Stmt s.  A nil handle is
\* rejected with SQLITE_MISUSE; a destroyed handle that is still referenced
\* is a use after free, any outcome; a live handle yields its next row,
\* completion after the last row, or an engine error.
StepResults(o, n, s) ==
    IF o[s].stmt = "nil" THEN {RvMisuse}
    ELSE IF n[s].state # "live" THEN {RvRow, RvDone, RvErr}
    ELSE IF n[s].pos < NRows(o[s].sql) THEN {RvRow, RvErr}
    ELSE {RvDone, RvErr}

\* The cursor after sqlite3_step returned rv.
NativeStep(n, s, rv) ==
    IF rv = RvRow /\ n[s].state = "live"
    THEN [n EXCEPT ![s].pos = Min(@ + 1, MaxRows)]
    ELSE n

\* Which native call, if any, reached the engine with a handle that is nil
\* or destroyed.
HandleUse(o, n, s) ==
    IF o[s].stmt = "nil" THEN "nil"
    ELSE IF n[s].state = "live" THEN "live" ELSE "destroyed"

\* Where s.SQL() takes the text from: the field s.sql once it is set,
\* else sqlite3_sql on the handle, which returns NULL (an empty text) for
\* a nil handle and is a use after free for a destroyed one.
SQLSource(o, n, s) ==
    IF o[s].sqlSet THEN "field"
    ELSE IF o[s].stmt = "nil" THEN "nil"
    ELSE IF n[s].state = "live" THEN "handle" ELSE "destroyed"

\* ---------------------------------------------------------- Stmt.finalize
\* finalize that does not log a failed sqlite3_finalize.
finalize_NoLog(o, n, live, s, rv) ==
    IF o[s].stmt = "nil"
    THEN [o |-> o, n |-> n, err |-> "ok", called |-> FALSE, logged |-> FALSE]
    ELSE IF ~live
    THEN [o |-> o, n |-> n, err |-> "closed", called |-> FALSE, logged |-> TRUE]
    ELSE IF rv # RvOk
    THEN [o |-> o, n |-> NativeFinalize(n, s), err |-> "native",
          called |-> TRUE, logged |-> FALSE]
    ELSE [o |-> [o EXCEPT ![s].stmt = "nil"], n |-> NativeFinalize(n, s),
          err |-> "ok", called |-> TRUE, logged |-> FALSE]

\* s.finalize() with rv the result of sqlite3_finalize, should it be called.
finalize(o, n, live, s, rv) ==
    IF o[s].stmt = "nil"
    THEN [o |-> o, n |-> n, err |-> "ok", called |-> FALSE, logged |-> FALSE]
    ELSE IF ~live
    THEN [o |-> o, n |-> n, err |-> "closed", called |-> FALSE, logged |-> TRUE]
    ELSE IF rv # RvOk
    THEN [o |-> o, n |-> NativeFinalize(n, s), err |-> "native",
          called |-> TRUE, logged |-> TRUE]
    ELSE [o |-> [o EXCEPT ![s].stmt = "nil"], n |-> NativeFinalize(n, s),
          err |-> "ok", called |-> TRUE, logged |-> FALSE]

\* ------------------------------------------------------- statement cache
\* Position of the most recently used idle entry whose SQL text equals sql
\* byte for byte, 0 when there is none.
find(o, c, sql) ==
    LET hits == {i \in 1..Len(c) : o[c[i]].sql = sql}
    IN IF hits = {} THEN 0 ELSE CHOOSE i \in hits : \A j \in hits : i <= j

\* Result of clearing the bindings of s: a nil handle is rejected by the
\* engine, otherwise the engine's result code rvClear.
ClearBindings(o, s, rvClear) == IF o[s].stmt = "nil" THEN RvMisuse ELSE rvClear

\* release without the eviction: the cache grows past its capacity.
release_NoEvict(o, n, c, live, s, rvClear, rvFin) ==
    IF ClearBindings(o, s, rvClear) # RvOk
    THEN LET f == finalize(o, n, live, s, rvFin)
         IN [o |-> f.o, n |-> f.n, c |-> c, err |-> f.err,
             fin |-> IF f.called THEN {s} ELSE {}, evicted |-> 0,
             logged |-> f.logged, reset |-> FALSE]
    ELSE [o |-> o, n |-> NativeReset(NativeClearBindings(n, s), s),
          c |-> <<s>> \o c, err |-> "ok",
          fin |-> {}, evicted |-> 0, logged |-> FALSE, reset |-> TRUE]

\* release(s): reset bindings and execution state; when that fails destroy
\* the statement, otherwise evict and destroy the least recently used entry
\* if the cache is full and insert s as most recently used.  The result of
\* destroying an evicted entry is logged by finalize and dropped.
release(o, n, c, live, s, rvClear, rvFin) ==
    IF ClearBindings(o, s, rvClear) # RvOk
    THEN LET f == finalize(o, n, live, s, rvFin)
         IN [o |-> f.o, n |-> f.n, c |-> c, err |-> f.err,
             fin |-> IF f.called THEN {s} ELSE {}, evicted |-> 0,
             logged |-> f.logged, reset |-> FALSE]
    ELSE LET n1 == NativeReset(NativeClearBindings(n, s), s)
         IN IF Len(c) >= CacheSize
            THEN LET v == c[Len(c)]
                     f == finalize(o, n1, live, v, rvFin)
                 IN [o |-> f.o, n |-> f.n,
                     c |-> <<s>> \o SubSeq(c, 1, Len(c) - 1), err |-> "ok",
                     fin |-> IF f.called THEN {v} ELSE {}, evicted |-> v,
                     logged |-> f.logged, reset |-> TRUE]
            ELSE [o |-> o, n |-> n1, c |-> <<s>> \o c, err |-> "ok",
                  fin |-> {}, evicted |-> 0, logged |-> FALSE, reset |-> TRUE]

\* ----------------------------------------------------------- Stmt.Finalize
\* The test without the check that the connection is still open.
FinalizeUsesCache_AnyConn(o, live, s) == o[s].Cacheable

\* The test of Stmt.Finalize: hand the statement to the cache?
FinalizeUsesCache(o, live, s) == o[s].Cacheable /\ live

\* s.Finalize(): rvClear is the result of sqlite3_clear_bindings and rvFin
\* that of sqlite3_finalize, should they be called.  A call on a statement
\* no caller holds as checked out (a repeated Finalize) is a stale call.
FinalizeCall(s, rvClear, rvFin) ==
    /\ stmts[s].ret
    /\ LET k == IF out[s] = 0 THEN 1 ELSE 0
           b == Bad(rvClear) + Bad(rvFin)
       IN /\ used.stale + k <= MaxStale
          /\ used.faults + b <= MaxFaults
          /\ used' = [stale |-> used.stale + k, faults |-> used.faults + b]
    /\ IF FinalizeUsesCache(stmts, db, s)
       THEN LET r == release(stmts, native, cache, db, s, rvClear, rvFin)
            IN /\ stmts' = r.o
               /\ native' = r.n
               /\ cache' = r.c
               /\ seen' = [x \in Ids |-> IF (x = s /\ r.reset) \/ x \in r.fin
                                         THEN 0 ELSE seen[x]]
               /\ last' = [Returned("Finalize", s, r.err, FALSE,
                                    HandleUse(stmts, native, s), r.logged)
                           EXCEPT !.evicted = r.evicted]
       ELSE LET f == finalize(stmts, native, db, s, rvFin)
            IN /\ stmts' = f.o
               /\ native' = f.n
               /\ cache' = cache
               /\ seen' = [seen EXCEPT ![s] = IF f.called THEN 0 ELSE @]
               /\ last' = Returned("Finalize", s, f.err, FALSE,
                                   IF f.called THEN HandleUse(stmts, native, s)
                                   ELSE "none", f.logged)
    /\ out' = [out EXCEPT ![s] = IF @ > 0 THEN @ - 1 ELSE 0]
    /\ UNCHANGED <<db, dst, cfg, blob, res>>

Finalize(s, rvClear, rvFin) == FinalizeCall(s, rvClear, rvFin) /\ UNCHANGED drv

\* ------------------------------------------------------------ Conn.Prepare
\* A lookup key with trailing whitespace folded away.
FindKey_Trimmed(cmd) ==
    IF Len(cmd) > 1 /\ cmd[Len(cmd)] = 0 THEN SubSeq(cmd, 1, Len(cmd) - 1)
    ELSE cmd

\* The key Conn.Prepare looks up in the cache: the text as given.
FindKey(cmd) == cmd

\* The Stmt object the next compilation creates.
Fresh(o) == CHOOSE s \in Ids : ~o[s].made /\ \A x \in Ids : ~o[x].made => s <= x

\* The Stmt built by Conn.prepare for a compiled handle; Cacheable is the
\* zero value.
NewStmt(cmd) == [made |-> TRUE, ret |-> FALSE, stmt |-> "set", sql |-> cmd,
                 Cacheable |-> FALSE, columnCount |-> -1,
                 bindParameterCount |-> -1, cols |-> NilMap, params |-> NilMap,
                 CheckTypeMismatch |-> TRUE, sqlSet |-> FALSE]

\* Conn.Prepare binds when arguments are given; bind is "none" without
\* arguments, else the outcome of Stmt.Bind.
BindFails(bind) == bind = "fail"

\* Conn.prepare(cmd, args...): compile and bind, no cache.  rvPrep is the
\* result of sqlite3_prepare_v2, rvFin that of sqlite3_finalize.
prepare(o, n, live, cmd, bind, rvPrep, rvFin) ==
    IF ~live \/ rvPrep # RvOk
    THEN [o |-> o, n |-> n, s |-> 0, err |-> "compile", logged |-> FALSE,
          errsql |-> ""]
    ELSE LET s == Fresh(o)
             o1 == [o EXCEPT ![s] = NewStmt(cmd)]
             n1 == [n EXCEPT ![s] = [state |-> "live", pos |-> 0,
                                     binds |-> Unbound(cmd)]]
         IN IF BindFails(bind)
            THEN LET f == finalize(o1, n1, live, s, rvFin)
                 IN [o |-> f.o, n |-> f.n, s |-> 0, err |-> "bind",
                     logged |-> f.logged, errsql |-> SQLSource(f.o, f.n, s)]
            ELSE [o |-> o1, n |-> n1, s |-> s, err |-> "ok", logged |-> FALSE,
                  errsql |-> ""]

\* Conn.Prepare(cmd, args...)
Prepare(cmd, bind, rvPrep, rvFin) ==
    LET i == find(stmts, cache, FindKey(cmd))
    IN /\ Faults(Bad(rvPrep) + Bad(rvFin))
       /\ UNCHANGED <<dst, cfg, drv, blob, res>>
       /\ IF i # 0
          THEN LET s == cache[i]
               IN /\ cache' = RemoveAt(cache, i)
                  /\ IF BindFails(bind)
                     THEN LET f == finalize(stmts, native, db, s, rvFin)
                          IN /\ stmts' = f.o
                             /\ native' = f.n
                             /\ seen' = [seen EXCEPT
                                           ![s] = IF f.called THEN 0 ELSE @]
                             /\ last' = [Returned("Prepare", 0, "bind", FALSE,
                                                 "none", f.logged)
                                         EXCEPT !.errsql =
                                                   SQLSource(f.o, f.n, s)]
                             /\ UNCHANGED <<out, db>>
                     ELSE /\ stmts' = [stmts EXCEPT ![s].ret = TRUE]
                          /\ out' = [out EXCEPT ![s] = @ + 1]
                          /\ last' = Returned("Prepare", s, "ok", FALSE, "none",
                                             FALSE)
                          /\ UNCHANGED <<native, db, seen>>
          ELSE /\ db /\ rvPrep = RvOk => \E x \in Ids : ~stmts[x].made
               /\ LET p == prepare(stmts, native, db, cmd, bind, rvPrep, rvFin)
                  IN /\ stmts' = IF p.s # 0
                                 THEN [p.o EXCEPT ![p.s].Cacheable = TRUE,
                                                  ![p.s].ret = TRUE]
                                 ELSE p.o
                     /\ native' = p.n
                     /\ out' = IF p.s # 0 THEN [out EXCEPT ![p.s] = @ + 1]
                               ELSE out
                     /\ last' = [Returned("Prepare", p.s, p.err, FALSE,
                                         "none", p.logged)
                                 EXCEPT !.errsql = p.errsql]
                     /\ UNCHANGED <<cache, db, seen>>

\* The caller clears the public Cacheable field of a statement it holds.
DisableCache(s) ==
    /\ stmts[s].ret /\ out[s] > 0 /\ stmts[s].Cacheable
    /\ Cardinality({x \in Ids : stmts[x].ret /\ ~stmts[x].Cacheable}) < MaxUncached
    /\ stmts' = [stmts EXCEPT ![s].Cacheable = FALSE]
    /\ last' = Returned("DisableCache", s, "ok", FALSE, "none", FALSE)
    /\ UNCHANGED <<native, cache, out, db, seen, used, dst, cfg, drv, blob, res>>

\* ---------------------------------------------------------------- Stmt.Next
\* Next that takes completion for a row.
NextResult_DoneIsRow(rv) ==
    [row |-> rv = RvRow \/ rv = RvDone,
     err |-> IF rv = RvRow \/ rv = RvDone THEN "ok" ELSE "native",
     code |-> IF rv = RvRow \/ rv = RvDone THEN "" ELSE rv,
     reset |-> rv # RvRow]

\* Next that does not reset the statement on completion.
NextResult_NoResetOnDone(rv) ==
    [row |-> rv = RvRow,
     err |-> IF rv = RvRow \/ rv = RvDone THEN "ok" ELSE "native",
     code |-> IF rv = RvRow \/ rv = RvDone THEN "" ELSE rv,
     reset |-> rv # RvRow /\ rv # RvDone]

\* Next that resets the statement on completion only.
NextResult_ErrorKeepsCursor(rv) ==
    [row |-> rv = RvRow,
     err |-> IF rv = RvRow \/ rv = RvDone THEN "ok" ELSE "native",
     code |-> IF rv = RvRow \/ rv = RvDone THEN "" ELSE rv,
     reset |-> rv = RvDone]

\* What Next returns and whether it resets the statement, from the result
\* code of sqlite3_step.
NextResult(rv) ==
    [row |-> rv = RvRow,
     err |-> IF rv = RvRow \/ rv = RvDone THEN "ok" ELSE "native",
     code |-> IF rv = RvRow \/ rv = RvDone THEN "" ELSE rv,
     reset |-> rv # RvRow]

\* s.Next(): rv is the result of sqlite3_step.
Next(s, rv) ==
    /\ stmts[s].ret
    /\ rv \in StepResults(stmts, native, s)
    /\ Faults(IF HandleUse(stmts, native, s) = "live" THEN Bad(rv) ELSE 0)
    /\ LET r == NextResult(rv)
           n1 == NativeStep(native, s, rv)
       IN /\ native' = IF r.reset THEN NativeReset(n1, s) ELSE n1
          /\ seen' = [seen EXCEPT ![s] = IF r.row THEN Min(@ + 1, MaxRows + 1)
                                         ELSE 0]
          /\ last' = [Returned("Next", s, r.err, r.row,
                              HandleUse(stmts, native, s), FALSE)
                      EXCEPT !.code = r.code, !.steps = 1]
    /\ UNCHANGED <<stmts, cache, out, db, dst, cfg, drv, blob, res>>

\* s.Reset()
ResetCall(s) ==
    /\ stmts[s].ret
    /\ native' = NativeReset(native, s)
    /\ seen' = [seen EXCEPT ![s] = 0]
    /\ last' = Returned("Reset", s, "ok", FALSE,
                       HandleUse(stmts, native, s), FALSE)
    /\ UNCHANGED <<stmts, cache, out, db, used, dst, cfg, blob, res>>

Reset(s) == ResetCall(s) /\ UNCHANGED drv

\* --------------------------------------------------------------- Conn.Close
\* The connection tears down: the cache's entries are finalized, the
\* engine destroys every statement still open and the connection's native
\* handle becomes nil.
Close ==
    /\ db
    /\ db' = FALSE
    /\ cache' = <<>>
    /\ stmts' = [s \in Ids |-> IF InCache(s) THEN [stmts[s] EXCEPT !.stmt = "nil"]
                               ELSE stmts[s]]
    /\ native' = [s \in Ids |-> IF native[s].state = "live"
                                THEN [native[s] EXCEPT !.state = "dead",
                                                       !.pos = 0]
                                ELSE native[s]]
    /\ seen' = [s \in Ids |-> 0]
    /\ last' = Returned("Close", 0, "ok", FALSE, "none", FALSE)
    /\ UNCHANGED <<out, used, dst, cfg, drv, blob, res>>

\* ------------------------------------------------------------ metadata
\* sqlite3_bind_parameter_count and sqlite3_column_count; a nil handle has
\* no parameters and no columns.
NativeParameterCount(o, s) ==
    IF o[s].stmt = "nil" THEN 0 ELSE Len(ParamNames(o[s].sql))

NativeColumnCount(o, s) ==
    IF o[s].stmt = "nil" THEN 0 ELSE Len(ColNames(o[s].sql))

\* s.BindParameterCount() and s.ColumnCount(): the count, and the Stmt with
\* the count cached.
BindParameterCount(o, s) ==
    IF o[s].bindParameterCount = -1
    THEN [n |-> NativeParameterCount(o, s), called |-> TRUE,
          o |-> [o EXCEPT ![s].bindParameterCount = NativeParameterCount(o, s)]]
    ELSE [n |-> o[s].bindParameterCount, called |-> FALSE, o |-> o]

ColumnCount(o, s) ==
    IF o[s].columnCount = -1
    THEN [n |-> NativeColumnCount(o, s), called |-> TRUE,
          o |-> [o EXCEPT ![s].columnCount = NativeColumnCount(o, s)]]
    ELSE [n |-> o[s].columnCount, called |-> FALSE, o |-> o]

\* sqlite3_bind_parameter_index: 1-based, 0 when there is no such name.
NativeParameterIndex(o, s, name) ==
    LET names == ParamNames(o[s].sql)
        hits == {i \in 1..Len(names) : names[i] = name}
    IN IF o[s].stmt = "nil" \/ hits = {} THEN 0 ELSE CHOOSE i \in hits : TRUE

\* A map in which no name is ever found.
MapGet_Missing(m, name) == -1

\* The value a map holds for a name, -1 when the name is not a key.
MapGet(m, name) ==
    IF \E e \in m.m : e[1] = name
    THEN (CHOOSE e \in m.m : e[1] = name)[2] ELSE -1

\* s.BindParameterIndex(name): the map is made on the first call and a
\* name is entered when the engine has resolved it.
bindParameterIndex(o, s, name) ==
    LET c == IF o[s].params.nil THEN BindParameterCount(o, s)
             ELSE [n |-> 0, called |-> FALSE, o |-> o]
        o1 == IF o[s].params.nil THEN [c.o EXCEPT ![s].params = MakeMap({})]
              ELSE o
    IN IF MapGet(o1[s].params, name) # -1
       THEN [o |-> o1, index |-> MapGet(o1[s].params, name), err |-> "ok",
             called |-> c.called]
       ELSE LET index == NativeParameterIndex(o1, s, name)
            IN IF index = 0
               THEN [o |-> o1, index |-> 0, err |-> "invalid name",
                     called |-> TRUE]
               ELSE [o |-> [o1 EXCEPT ![s].params.m = @ \cup {<<name, index>>}],
                     index |-> index, err |-> "ok", called |-> TRUE]

\* s.ColumnIndex(name): the map is built from all the column names on the
\* first call; -1 with an error for a name that is not a key.
columnIndex(o, s, name) ==
    LET c == IF o[s].cols.nil THEN ColumnCount(o, s)
             ELSE [n |-> 0, called |-> FALSE, o |-> o]
        o1 == IF o[s].cols.nil
              THEN [c.o EXCEPT ![s].cols =
                        MakeMap({<<ColNames(o[s].sql)[i + 1], i>> :
                                    i \in 0..(c.n - 1)})]
              ELSE o
    IN IF MapGet(o1[s].cols, name) # -1
       THEN [o |-> o1, index |-> MapGet(o1[s].cols, name), err |-> "ok",
             called |-> o[s].cols.nil]
       ELSE [o |-> o1, index |-> -1, err |-> "invalid name",
             called |-> o[s].cols.nil]

\* The data operations below are calls on a statement whose handle is not
\* a destroyed one.
Usable(s) == stmts[s].ret /\ HandleUse(stmts, native, s) # "destroyed"

\* s.BindParameterIndex(name)
BindParameterIndex(s, name) ==
    /\ Usable(s)
    /\ LET r == bindParameterIndex(stmts, s, name)
       IN /\ stmts' = r.o
          /\ last' = Returned("BindParameterIndex", s, r.err, FALSE,
                             IF r.called THEN HandleUse(stmts, native, s)
                             ELSE "none", FALSE)
    /\ UNCHANGED <<native, cache, out, db, seen, used, dst, cfg, drv, blob, res>>

\* s.ColumnIndex(name)
ColumnIndex(s, name) ==
    /\ Usable(s)
    /\ LET r == columnIndex(stmts, s, name)
       IN /\ stmts' = r.o
          /\ last' = Returned("ColumnIndex", s, r.err, FALSE,
                             IF r.called THEN HandleUse(stmts, native, s)
                             ELSE "none", FALSE)
    /\ UNCHANGED <<native, cache, out, db, seen, used, dst, cfg, drv, blob, res>>

\* s.SQL(): the field s.sql is filled from the handle on the first call.
SQL(s) ==
    /\ Usable(s) /\ ~stmts[s].sqlSet
    /\ stmts' = [stmts EXCEPT ![s].sqlSet = SQLSource(stmts, native, s) = "handle"]
    /\ last' = Returned("SQL", s, "ok", FALSE, HandleUse(stmts, native, s),
                        FALSE)
    /\ UNCHANGED <<native, cache, out, db, seen, used, dst, cfg, drv, blob, res>>

\* ---------------------------------------------------------------- binding
\* Widths of C.int and of sqlite3_int64, and the conversion of a Go integer
\* to such a width.
Int64Bits == 2 * CIntBits

MaxInt64 == 2 ^ (Int64Bits - 1) - 1

Wrap(n, bits) == ((n + 2 ^ (bits - 1)) % 2 ^ bits) - 2 ^ (bits - 1)

\* A Go value handed to a bind: its dynamic type t, n for a number (a bool
\* is 0 or 1, a float is in tenths), b for the bytes of a string or of a
\* []byte.  The types "kind:K" are named types of reflect.Kind K, which
\* only the kind-based dispatch handles.  A time.Time is its Unix seconds
\* n with b = <<>>, or b = <<f>> for f tenths of a second more.
HostValue(t, n, b) == [t |-> t, n |-> n, b |-> b]

\* The Unix seconds of the zero time.Time (year 1), a negative number well
\* inside the range of a sqlite3_int64.
ZeroTimeUnix == -(2 ^ (Int64Bits - 2))

\* time.Time.IsZero and time.Time.Unix
IsZero(value) == value.n = ZeroTimeUnix /\ value.b = <<>>

Unix(value) == value.n

BindValues ==
    {HostValue("nil", 0, <<>>),
     HostValue("string", 0, <<>>), HostValue("string", 0, <<97>>),
     HostValue("int", 1, <<>>), HostValue("int", 2 ^ (CIntBits - 1) + 1, <<>>),
     HostValue("int64", 2 ^ (CIntBits - 1) + 1, <<>>),
     HostValue("byte", 1, <<>>), HostValue("bool", 1, <<>>),
     HostValue("float32", 15, <<>>), HostValue("float64", 15, <<>>),
     HostValue("[]byte", 0, <<>>), HostValue("[]byte", 0, <<7>>),
     HostValue("kind:String", 0, <<>>), HostValue("kind:String", 0, <<97>>),
     HostValue("kind:Int", 2 ^ (CIntBits - 1) + 1, <<>>),
     HostValue("kind:Uint", 1, <<>>), HostValue("kind:Uint", MaxInt64 + 1, <<>>),
     HostValue("kind:Bool", 1, <<>>), HostValue("kind:Float", 15, <<>>),
     HostValue("kind:Struct", 0, <<>>),
     HostValue("time.Time", ZeroTimeUnix, <<>>), HostValue("time.Time", 0, <<>>),
     HostValue("time.Time", 3, <<>>), HostValue("time.Time", 3, <<5>>)}

\* btocint
btocint(n) == IF n # 0 THEN 1 ELSE 0

\* The value a bind hands to the engine, or the local error.
Bound(v) == [err |-> "ok", v |-> v]

\* BindReflect: the dispatch on the value's reflect.Kind.
BindReflect(value) ==
    CASE value.t = "kind:String" -> Bound(StorageText(value.b))
      [] value.t = "kind:Int" -> Bound(StorageInteger(Wrap(value.n, Int64Bits)))
      [] value.t = "kind:Uint" ->
            IF value.n > MaxInt64 THEN [err |-> "overflow", v |-> StorageNull]
            ELSE Bound(StorageInteger(Wrap(value.n, Int64Bits)))
      [] value.t = "kind:Bool" -> Bound(StorageInteger(btocint(value.n)))
      [] value.t = "kind:Float" -> Bound(StorageFloat(value.n))
      [] OTHER -> [err |-> "unsupported", v |-> StorageNull]

\* BindByIndex that binds an empty string as Text whatever the setting.
BindByIndex_EmptyIsText(value, nullIfEmpty, nullIfZero) ==
    CASE value.t = "nil" -> Bound(StorageNull)
      [] value.t = "string" -> Bound(StorageText(value.b))
      [] value.t = "int" -> Bound(StorageInteger(Wrap(value.n, CIntBits)))
      [] value.t = "int64" -> Bound(StorageInteger(Wrap(value.n, Int64Bits)))
      [] value.t = "byte" -> Bound(StorageInteger(Wrap(value.n, CIntBits)))
      [] value.t = "bool" -> Bound(StorageInteger(btocint(value.n)))
      [] value.t = "float32" -> Bound(StorageFloat(value.n))
      [] value.t = "float64" -> Bound(StorageFloat(value.n))
      [] value.t = "[]byte" -> Bound(StorageBlob(value.b))
      [] value.t = "time.Time" ->
            IF nullIfZero /\ IsZero(value) THEN Bound(StorageNull)
            ELSE Bound(StorageInteger(Wrap(Unix(value), Int64Bits)))
      [] OTHER -> BindReflect(value)

\* BindByIndex that binds the zero time as Null whatever the setting.
BindByIndex_ZeroTimeIsNull(value, nullIfEmpty, nullIfZero) ==
    CASE value.t = "nil" -> Bound(StorageNull)
      [] value.t = "string" ->
            IF nullIfEmpty /\ Len(value.b) = 0 THEN Bound(StorageNull)
            ELSE Bound(StorageText(value.b))
      [] value.t = "int" -> Bound(StorageInteger(Wrap(value.n, CIntBits)))
      [] value.t = "int64" -> Bound(StorageInteger(Wrap(value.n, Int64Bits)))
      [] value.t = "byte" -> Bound(StorageInteger(Wrap(value.n, CIntBits)))
      [] value.t = "bool" -> Bound(StorageInteger(btocint(value.n)))
      [] value.t = "float32" -> Bound(StorageFloat(value.n))
      [] value.t = "float64" -> Bound(StorageFloat(value.n))
      [] value.t = "[]byte" -> Bound(StorageBlob(value.b))
      [] value.t = "time.Time" ->
            IF IsZero(value) THEN Bound(StorageNull)
            ELSE Bound(StorageInteger(Wrap(Unix(value), Int64Bits)))
      [] OTHER -> BindReflect(value)

\* BindByIndex: the dispatch on the value's type, with nullIfEmpty the
\* setting NullIfEmptyString and nullIfZero the setting NullIfZeroTime.
BindByIndex(value, nullIfEmpty, nullIfZero) ==
    CASE value.t = "nil" -> Bound(StorageNull)
      [] value.t = "string" ->
            IF nullIfEmpty /\ Len(value.b) = 0 THEN Bound(StorageNull)
            ELSE Bound(StorageText(value.b))
      [] value.t = "int" -> Bound(StorageInteger(Wrap(value.n, CIntBits)))
      [] value.t = "int64" -> Bound(StorageInteger(Wrap(value.n, Int64Bits)))
      [] value.t = "byte" -> Bound(StorageInteger(Wrap(value.n, CIntBits)))
      [] value.t = "bool" -> Bound(StorageInteger(btocint(value.n)))
      [] value.t = "float32" -> Bound(StorageFloat(value.n))
      [] value.t = "float64" -> Bound(StorageFloat(value.n))
      [] value.t = "[]byte" -> Bound(StorageBlob(value.b))
      [] value.t = "time.Time" ->
            IF nullIfZero /\ IsZero(value) THEN Bound(StorageNull)
            ELSE Bound(StorageInteger(Wrap(Unix(value), Int64Bits)))
      [] OTHER -> BindReflect(value)

\* Result code of a native bind call on parameter index: a nil handle and
\* a statement that is being stepped are rejected, as is an index out of
\* range; otherwise rv.
NativeBindResult(o, n, s, index, rv) ==
    IF o[s].stmt = "nil" \/ n[s].pos > 0 THEN RvMisuse
    ELSE IF index < 1 \/ index > Len(n[s].binds) THEN RvErr
    ELSE rv

\* A test that lets a call with too few arguments through.
ArityMismatch_TooManyOnly(n, nargs) == nargs > n

\* The test of Bind and of Scan on the number of arguments.
ArityMismatch(n, nargs) == n # nargs

\* A loop of Bind that clears every binding when an argument fails.
RECURSIVE BindArgs_ClearsOnError(_, _, _, _, _, _, _)
BindArgs_ClearsOnError(o, n, s, args, i, c, failAt) ==
    IF i > Len(args)
    THEN [n |-> n, err |-> "ok", code |-> "", vcalls |-> i - 1, at |-> 0]
    ELSE LET d == BindByIndex(args[i], c.NullIfEmptyString, c.NullIfZeroTime)
         IN IF d.err # "ok"
            THEN [n |-> NativeClearBindings(n, s), err |-> d.err, code |-> "",
                  vcalls |-> i - 1, at |-> i]
            ELSE LET rv == NativeBindResult(o, n, s, i,
                                            IF failAt = i THEN RvErr ELSE RvOk)
                 IN IF rv # RvOk
                    THEN [n |-> NativeClearBindings(n, s), err |-> "native",
                          code |-> rv, vcalls |-> i, at |-> i]
                    ELSE BindArgs_ClearsOnError(
                             o, [n EXCEPT ![s].binds[i] = d.v], s, args,
                             i + 1, c, failAt)

\* The loop of s.Bind(args...) from argument i on, under the settings c;
\* the native bind of argument failAt returns an error (0: none does).
RECURSIVE BindArgs(_, _, _, _, _, _, _)
BindArgs(o, n, s, args, i, c, failAt) ==
    IF i > Len(args)
    THEN [n |-> n, err |-> "ok", code |-> "", vcalls |-> i - 1, at |-> 0]
    ELSE LET d == BindByIndex(args[i], c.NullIfEmptyString, c.NullIfZeroTime)
         IN IF d.err # "ok"
            THEN [n |-> n, err |-> d.err, code |-> "", vcalls |-> i - 1,
                  at |-> i]
            ELSE LET rv == NativeBindResult(o, n, s, i,
                                            IF failAt = i THEN RvErr ELSE RvOk)
                 IN IF rv # RvOk
                    THEN [n |-> n, err |-> "native", code |-> rv,
                          vcalls |-> i, at |-> i]
                    ELSE BindArgs(o, [n EXCEPT ![s].binds[i] = d.v], s, args,
                                  i + 1, c, failAt)

\* s.Bind(args...)
Bind(s, args, failAt) ==
    /\ Usable(s)
    /\ LET c == BindParameterCount(stmts, s)
       IN /\ stmts' = c.o
          /\ IF ArityMismatch(c.n, Len(args))
             THEN /\ failAt = 0
                  /\ native' = native
                  /\ UNCHANGED used
                  /\ last' = Returned("Bind", s, "arity", FALSE,
                                     IF c.called THEN HandleUse(stmts, native, s)
                                     ELSE "none", FALSE)
             ELSE LET r == BindArgs(stmts, native, s, args, 1, cfg, failAt)
                      hit == failAt # 0 /\ r.at = failAt /\ r.code = RvErr
                  IN /\ failAt # 0 => hit
                     /\ Faults(IF hit THEN 1 ELSE 0)
                     /\ native' = r.n
                     /\ last' = [Returned("Bind", s, r.err, FALSE,
                                          IF c.called \/ r.vcalls > 0
                                          THEN HandleUse(stmts, native, s)
                                          ELSE "none", FALSE)
                                 EXCEPT !.code = r.code, !.vcalls = r.vcalls,
                                        !.at = r.at]
    /\ UNCHANGED <<cache, out, db, seen, dst, cfg, drv, blob, res>>

\* A name argument of NamedBind: a Go string, or a value of another type.
NameArg(isString, name) == [isString |-> isString, name |-> name]

\* The loop of s.NamedBind(name1, value1, ...) from pair i on, each pair
\* being <<name, value>>; the native bind of pair failAt returns an error
\* (0: none does).  vcalls counts the native bind calls made, called
\* tells whether a lookup of a name has reached the engine.
RECURSIVE NamedBindArgs(_, _, _, _, _, _, _, _, _)
NamedBindArgs(o, n, s, pairs, i, c, failAt, vcalls, called) ==
    IF i > Len(pairs)
    THEN [o |-> o, n |-> n, err |-> "ok", code |-> "", vcalls |-> vcalls,
          at |-> 0, called |-> called]
    ELSE IF ~pairs[i][1].isString
    THEN [o |-> o, n |-> n, err |-> "non-string name", code |-> "",
          vcalls |-> vcalls, at |-> i, called |-> called]
    ELSE LET x == bindParameterIndex(o, s, pairs[i][1].name)
             k == called \/ x.called
         IN IF x.err # "ok"
            THEN [o |-> x.o, n |-> n, err |-> x.err, code |-> "",
                  vcalls |-> vcalls, at |-> i, called |-> k]
            ELSE LET d == BindByIndex(pairs[i][2], c.NullIfEmptyString,
                                      c.NullIfZeroTime)
                 IN IF d.err # "ok"
                    THEN [o |-> x.o, n |-> n, err |-> d.err, code |-> "",
                          vcalls |-> vcalls, at |-> i, called |-> k]
                    ELSE LET rv == NativeBindResult(
                                       x.o, n, s, x.index,
                                       IF failAt = i THEN RvErr ELSE RvOk)
                         IN IF rv # RvOk
                            THEN [o |-> x.o, n |-> n, err |-> "native",
                                  code |-> rv, vcalls |-> vcalls + 1,
                                  at |-> i, called |-> k]
                            ELSE NamedBindArgs(
                                     x.o, [n EXCEPT ![s].binds[x.index] = d.v],
                                     s, pairs, i + 1, c, failAt, vcalls + 1, k)

\* s.NamedBind(name1, value1, ...), with odd one more argument at the end
NamedBind(s, pairs, odd, failAt) ==
    /\ Usable(s)
    /\ IF odd
       THEN /\ failAt = 0
            /\ UNCHANGED <<stmts, native, used>>
            /\ last' = Returned("NamedBind", s, "arity", FALSE, "none", FALSE)
       ELSE LET r == NamedBindArgs(stmts, native, s, pairs, 1, cfg, failAt, 0,
                                   FALSE)
                hit == failAt # 0 /\ r.at = failAt /\ r.code = RvErr
            IN /\ failAt # 0 => hit
               /\ Faults(IF hit THEN 1 ELSE 0)
               /\ stmts' = r.o
               /\ native' = r.n
               /\ last' = [Returned("NamedBind", s, r.err, FALSE,
                                    IF r.called \/ r.vcalls > 0
                                    THEN HandleUse(stmts, native, s)
                                    ELSE "none", FALSE)
                           EXCEPT !.code = r.code, !.vcalls = r.vcalls,
                                  !.at = r.at]
    /\ UNCHANGED <<cache, out, db, seen, dst, cfg, drv, blob, res>>

\* exec that resets the statement only when the step completed.
exec_ResetOnDoneOnly(n, s, rv) ==
    [n |-> IF rv = RvDone THEN NativeReset(NativeStep(n, s, rv), s)
           ELSE NativeStep(n, s, rv),
     err |-> IF rv = RvDone THEN "ok" ELSE "native",
     code |-> IF rv = RvDone THEN "" ELSE rv]

\* s.exec() with rv the result of sqlite3_step: one step, then
\* sqlite3_reset; any result but completion is returned as an error.
exec(n, s, rv) ==
    [n |-> NativeReset(NativeStep(n, s, rv), s),
     err |-> IF rv = RvDone THEN "ok" ELSE "native",
     code |-> IF rv = RvDone THEN "" ELSE rv]

\* s.Exec(args...): rv is the result of sqlite3_step, should the bind
\* succeed.
ExecCall(s, args, failAt, rv) ==
    /\ Usable(s)
    /\ LET c == BindParameterCount(stmts, s)
       IN /\ stmts' = c.o
          /\ IF ArityMismatch(c.n, Len(args))
             THEN /\ failAt = 0 /\ rv = RvDone
                  /\ UNCHANGED <<native, used, seen>>
                  /\ last' = Returned("Exec", s, "arity", FALSE,
                                     IF c.called THEN HandleUse(stmts, native, s)
                                     ELSE "none", FALSE)
             ELSE LET r == BindArgs(stmts, native, s, args, 1, cfg, failAt)
                      hit == failAt # 0 /\ r.at = failAt /\ r.code = RvErr
                  IN /\ failAt # 0 => hit
                     /\ IF r.err # "ok"
                        THEN /\ rv = RvDone
                             /\ Faults(IF hit THEN 1 ELSE 0)
                             /\ native' = r.n
                             /\ seen' = seen
                             /\ last' = [Returned("Exec", s, r.err, FALSE,
                                                  IF c.called \/ r.vcalls > 0
                                                  THEN HandleUse(stmts, native, s)
                                                  ELSE "none", FALSE)
                                         EXCEPT !.code = r.code,
                                                !.vcalls = r.vcalls]
                        ELSE LET x == exec(r.n, s, rv)
                             IN /\ rv \in StepResults(stmts, r.n, s)
                                /\ Faults(IF HandleUse(stmts, native, s) = "live"
                                          THEN Bad(rv) ELSE 0)
                                /\ native' = x.n
                                /\ seen' = [seen EXCEPT ![s] = 0]
                                /\ last' = [Returned("Exec", s, x.err, FALSE,
                                                     HandleUse(stmts, native, s),
                                                     FALSE)
                                            EXCEPT !.code = x.code,
                                                   !.vcalls = r.vcalls,
                                                   !.steps = 1]
    /\ UNCHANGED <<cache, out, db, dst, cfg, drv, blob>>

Exec(s, args, failAt, rv) == ExecCall(s, args, failAt, rv) /\ UNCHANGED res

\* Insert that returns the rowid whatever the change count is.
InsertResult_IgnoresChanges(err, changes, rowid) ==
    IF err # "ok" THEN [op |-> "Insert", n |-> -1, err |-> err]
    ELSE [op |-> "Insert", n |-> rowid, err |-> "ok"]

\* What ExecDml returns when Exec returned err and s.c.Changes() is
\* changes: -1 and the error, or the change count and nil.
ExecDmlResult(err, changes) ==
    IF err # "ok" THEN [op |-> "ExecDml", n |-> -1, err |-> err]
    ELSE [op |-> "ExecDml", n |-> changes, err |-> "ok"]

\* What Insert returns when s.c.LastInsertRowid() is rowid: ExecDml's
\* error with -1, -1 and nil when nothing changed, the rowid otherwise.
InsertResult(err, changes, rowid) ==
    LET d == ExecDmlResult(err, changes)
    IN IF d.err # "ok" THEN [op |-> "Insert", n |-> -1, err |-> d.err]
       ELSE IF d.n = 0 THEN [op |-> "Insert", n |-> -1, err |-> "ok"]
       ELSE [op |-> "Insert", n |-> rowid, err |-> "ok"]

\* s.ExecDml(args...): Exec, then the connection's change count.
ExecDml(s, args, failAt, rv, changes) ==
    /\ ExecCall(s, args, failAt, rv)
    /\ res' = ExecDmlResult(last'.err, changes)

\* s.Insert(args...): ExecDml, then the connection's last inserted rowid.
Insert(s, args, failAt, rv, changes, rowid) ==
    /\ ExecCall(s, args, failAt, rv)
    /\ res' = InsertResult(last'.err, changes, rowid)

\* A Select that goes on after the row callback returned an error.
SelectStops_Never(cbErr) == FALSE

\* Select returns when the row callback returned an error.
SelectStops(cbErr) == cbErr

\* A loop of Select that resets the statement when the callback returns
\* an error.
RECURSIVE SelectLoop_ResetsOnCallbackError(_, _, _, _, _, _)
SelectLoop_ResetsOnCallbackError(o, n, s, steps, calls, plan) ==
    LET rv == IF o[s].stmt = "nil" THEN RvMisuse
              ELSE IF plan.failStep = steps + 1 THEN RvErr
              ELSE IF n[s].pos < NRows(o[s].sql) THEN RvRow ELSE RvDone
        r == NextResult(rv)
        n1 == NativeStep(n, s, rv)
        n2 == IF r.reset THEN NativeReset(n1, s) ELSE n1
    IN IF r.err # "ok"
       THEN [n |-> n2, err |-> r.err, code |-> r.code, steps |-> steps + 1,
             calls |-> calls]
       ELSE IF ~r.row
       THEN [n |-> n2, err |-> "ok", code |-> "", steps |-> steps + 1,
             calls |-> calls]
       ELSE IF SelectStops(plan.failCall = Len(calls) + 1)
       THEN [n |-> NativeReset(n2, s), err |-> "callback", code |-> "",
             steps |-> steps + 1, calls |-> Append(calls, n2[s].pos)]
       ELSE SelectLoop_ResetsOnCallbackError(
                o, n2, s, steps + 1, Append(calls, n2[s].pos), plan)

\* The loop of s.Select: Next, then the row callback, until Next reports
\* no row or an error, or the callback returns an error.  steps counts the
\* Next calls made, calls lists the rows the callback was invoked on;
\* plan.failStep is the Next call in which the engine returns an error and
\* plan.failCall the callback invocation that returns an error (0: none).
RECURSIVE SelectLoop(_, _, _, _, _, _)
SelectLoop(o, n, s, steps, calls, plan) ==
    LET rv == IF o[s].stmt = "nil" THEN RvMisuse
              ELSE IF plan.failStep = steps + 1 THEN RvErr
              ELSE IF n[s].pos < NRows(o[s].sql) THEN RvRow ELSE RvDone
        r == NextResult(rv)
        n1 == NativeStep(n, s, rv)
        n2 == IF r.reset THEN NativeReset(n1, s) ELSE n1
    IN IF r.err # "ok"
       THEN [n |-> n2, err |-> r.err, code |-> r.code, steps |-> steps + 1,
             calls |-> calls]
       ELSE IF ~r.row
       THEN [n |-> n2, err |-> "ok", code |-> "", steps |-> steps + 1,
             calls |-> calls]
       ELSE IF SelectStops(plan.failCall = Len(calls) + 1)
       THEN [n |-> n2, err |-> "callback", code |-> "", steps |-> steps + 1,
             calls |-> Append(calls, n2[s].pos)]
       ELSE SelectLoop(o, n2, s, steps + 1, Append(calls, n2[s].pos), plan)

\* s.Select(rowCallbackHandler, args...)
Select(s, args, failAt, plan) ==
    /\ Usable(s)
    /\ LET c == IF Len(args) > 0 THEN BindParameterCount(stmts, s)
                ELSE [n |-> 0, called |-> FALSE, o |-> stmts]
           r == IF Len(args) > 0 /\ ~ArityMismatch(c.n, Len(args))
                THEN BindArgs(stmts, native, s, args, 1, cfg, failAt)
                ELSE [n |-> native, err |-> "ok", code |-> "", vcalls |-> 0,
                      at |-> 0]
           hit == failAt # 0 /\ r.at = failAt /\ r.code = RvErr
       IN /\ stmts' = c.o
          /\ failAt # 0 => hit
          /\ IF Len(args) > 0 /\ ArityMismatch(c.n, Len(args))
             THEN /\ plan = [failStep |-> 0, failCall |-> 0]
                  /\ UNCHANGED <<native, used, seen>>
                  /\ last' = Returned("Select", s, "arity", FALSE,
                                     IF c.called THEN HandleUse(stmts, native, s)
                                     ELSE "none", FALSE)
             ELSE IF r.err # "ok"
             THEN /\ plan = [failStep |-> 0, failCall |-> 0]
                  /\ Faults(IF hit THEN 1 ELSE 0)
                  /\ native' = r.n
                  /\ seen' = seen
                  /\ last' = [Returned("Select", s, r.err, FALSE,
                                       HandleUse(stmts, native, s), FALSE)
                              EXCEPT !.code = r.code, !.vcalls = r.vcalls]
             ELSE LET x == SelectLoop(stmts, r.n, s, 0, <<>>, plan)
                  IN /\ plan.failStep # 0 => x.steps >= plan.failStep
                     /\ plan.failCall # 0 => Len(x.calls) >= plan.failCall
                     /\ Faults(IF x.code = RvErr THEN 1 ELSE 0)
                     /\ native' = x.n
                     /\ seen' = [seen EXCEPT
                                   ![s] = IF x.n[s].pos = 0 THEN 0
                                          ELSE Min(@ + Len(x.calls), MaxRows + 1)]
                     /\ last' = [Returned("Select", s, x.err, FALSE,
                                          HandleUse(stmts, native, s), FALSE)
                                 EXCEPT !.code = x.code, !.vcalls = r.vcalls,
                                        !.steps = x.steps, !.calls = x.calls]
    /\ UNCHANGED <<cache, out, db, dst, cfg, drv, blob, res>>

\* ------------------------------------------------ database/sql driver
\* stmt.bind(args): the loop of BindByIndex over the arguments, with no
\* test on their number.
stmtBind(o, n, s, args, c, failAt) == BindArgs(o, n, s, args, 1, c, failAt)

\* stmt.Query refuses while rowsRef is set.
QueryRefused(d) == d.rowsRef

\* stmt.Query(args)
Query(s, args, failAt) ==
    /\ stmts[s].ret /\ Usable(s)
    /\ IF QueryRefused(drv[s])
       THEN /\ failAt = 0
            /\ UNCHANGED <<native, used, drv>>
            /\ last' = Returned("Query", s, "rows open", FALSE, "none", FALSE)
       ELSE LET r == stmtBind(stmts, native, s, args, cfg, failAt)
                hit == failAt # 0 /\ r.at = failAt /\ r.code = RvErr
            IN /\ failAt # 0 => hit
               /\ Faults(IF hit THEN 1 ELSE 0)
               /\ r.err = "ok" => drv[s].open < MaxOpenRows
               /\ native' = r.n
               /\ drv' = IF r.err = "ok"
                         THEN [drv EXCEPT ![s].rowsRef = TRUE,
                                          ![s].open = @ + 1]
                         ELSE drv
               /\ last' = [Returned("Query", s, r.err, FALSE,
                                    IF r.vcalls > 0
                                    THEN HandleUse(stmts, native, s)
                                    ELSE "none", FALSE)
                           EXCEPT !.code = r.code, !.vcalls = r.vcalls,
                                  !.at = r.at]
    /\ UNCHANGED <<stmts, cache, out, db, seen, dst, cfg, blob, res>>

\* stmt.Close defers the finalization while rowsRef is set.
CloseDeferred(d) == d.rowsRef

\* stmt.Close() on the wrapper d of s
stmtClose(d, s, rvClear, rvFin) ==
    IF CloseDeferred(d)
    THEN /\ rvClear = RvOk /\ rvFin = RvOk
         /\ drv' = [drv EXCEPT ![s] = [d EXCEPT !.pendingClose = TRUE]]
         /\ last' = Returned("Close", s, "ok", FALSE, "none", FALSE)
         /\ UNCHANGED <<stmts, native, cache, out, db, seen, used, dst, cfg,
                        blob, res>>
    ELSE /\ FinalizeCall(s, rvClear, rvFin)
         /\ drv' = [drv EXCEPT ![s] = [d EXCEPT !.finalizes = @ + 1]]

\* stmt.Close()
StmtClose(s, rvClear, rvFin) ==
    /\ stmts[s].ret
    /\ stmtClose(drv[s], s, rvClear, rvFin)

\* rowsImpl.Close() on a Rows of s: on one that is open, or (again) on
\* one that has been closed before.
RowsClose(s, again, rvClear, rvFin) ==
    /\ stmts[s].ret
    /\ IF again THEN drv[s].closed ELSE drv[s].open > 0
    /\ LET d == [drv[s] EXCEPT !.rowsRef = FALSE,
                               !.open = IF again THEN @ ELSE @ - 1,
                               !.closed = TRUE]
       IN IF d.pendingClose
          THEN stmtClose(d, s, rvClear, rvFin)
          ELSE /\ rvClear = RvOk /\ rvFin = RvOk
               /\ ResetCall(s)
               /\ drv' = [drv EXCEPT ![s] = d]

\* The caller sets the package variable NullIfEmptyString.
SetNullIfEmptyString(b) ==
    /\ cfg.NullIfEmptyString # b
    /\ cfg' = [cfg EXCEPT !.NullIfEmptyString = b]
    /\ last' = Returned("SetNullIfEmptyString", 0, "ok", FALSE, "none", FALSE)
    /\ UNCHANGED <<stmts, native, cache, out, db, seen, used, dst, drv, blob, res>>

\* The caller sets the package variable NullIfZeroTime.
SetNullIfZeroTime(b) ==
    /\ cfg.NullIfZeroTime # b
    /\ cfg' = [cfg EXCEPT !.NullIfZeroTime = b]
    /\ last' = Returned("SetNullIfZeroTime", 0, "ok", FALSE, "none", FALSE)
    /\ UNCHANGED <<stmts, native, cache, out, db, seen, used, dst, drv, blob, res>>

\* --------------------------------------------------------------- scanning
\* The statement has a current row.
HasRow(o, n, s) == o[s].stmt = "set" /\ n[s].state = "live" /\ n[s].pos > 0

\* Values the engine can return for column index (0-based): on a row,
\* column i holds the value bound to parameter i + 1; without a current
\* row, or for an index out of range, the engine leaves the result
\* undefined.
ColumnValues(o, n, s, index) ==
    IF HasRow(o, n, s) /\ index >= 0 /\ index < Len(ColNames(o[s].sql))
    THEN {n[s].binds[index + 1]}
    ELSE StorageValues

\* Decimal text of a small integer and of a float given in tenths.
Digits(i) ==
    LET a == IF i < 0 THEN -i ELSE i
        ds == IF a < 10 THEN <<48 + a>>
              ELSE <<48 + (a \div 10), 48 + (a % 10)>>
    IN IF i < 0 THEN <<45>> \o ds ELSE ds

FloatDigits(t) == Digits(t \div 10) \o <<46, 48 + (t % 10)>>

\* The integer the engine reads from a text: its leading digit, else 0.
TextToInt(b) == IF Len(b) > 0 /\ b[1] >= 48 /\ b[1] <= 57 THEN b[1] - 48 ELSE 0

\* sqlite3_column_int64, _int, _double (tenths), _text and _blob with the
\* engine's coercions; the last two return a pointer that can be NULL.
ColumnInt64(cv) ==
    CASE cv.class = "Integer" -> cv.n
      [] cv.class = "Float" -> cv.n \div 10
      [] cv.class = "Null" -> 0
      [] OTHER -> TextToInt(cv.b)

ColumnInt(cv) == Wrap(ColumnInt64(cv), CIntBits)

ColumnDouble(cv) ==
    CASE cv.class = "Integer" -> cv.n * 10
      [] cv.class = "Float" -> cv.n
      [] cv.class = "Null" -> 0
      [] OTHER -> TextToInt(cv.b) * 10

ColumnText(cv) ==
    CASE cv.class = "Null" -> [nil |-> TRUE, b |-> <<>>]
      [] cv.class = "Integer" -> [nil |-> FALSE, b |-> Digits(cv.n)]
      [] cv.class = "Float" -> [nil |-> FALSE, b |-> FloatDigits(cv.n)]
      [] OTHER -> [nil |-> FALSE, b |-> cv.b]

ColumnBlob(cv) ==
    IF ColumnText(cv).nil \/ Len(ColumnText(cv).b) = 0
    THEN [nil |-> TRUE, b |-> <<>>]
    ELSE ColumnText(cv)

\* A check that also rejects the widening of an Integer to a Float.
checkTypeMismatch_NoWidening(source, target) ==
    IF target = "Integer" /\ source \in {"Float", "Text", "Blob"} THEN "mismatch"
    ELSE IF target = "Float" /\ source \in {"Integer", "Text", "Blob"}
    THEN "mismatch"
    ELSE "ok"

\* s.checkTypeMismatch(source, target)
checkTypeMismatch(source, target) ==
    IF target = "Integer" /\ source \in {"Float", "Text", "Blob"} THEN "mismatch"
    ELSE IF target = "Float" /\ source \in {"Text", "Blob"} THEN "mismatch"
    ELSE "ok"

\* A byte has a quarter of the bits of a C.int.
byte(i) == i % 2 ^ (CIntBits - 1)

\* What a typed scan returns: the value (n or b), isNull and err.
Scanned(n, b, null, err) == [n |-> n, b |-> b, null |-> null, err |-> err]

\* ScanInt that applies the type check to a Null column as well.
ScanInt_NullChecked(cv, check) ==
    Scanned(IF cv.class = "Null" THEN 0 ELSE ColumnInt(cv), <<>>,
            cv.class = "Null",
            IF check /\ cv.class # "Integer" THEN "mismatch" ELSE "ok")

\* ScanInt, ScanInt64, ScanByte, ScanBool, ScanDouble: check is the
\* statement's CheckTypeMismatch.
ScanInt(cv, check) ==
    IF cv.class = "Null" THEN Scanned(0, <<>>, TRUE, "ok")
    ELSE Scanned(ColumnInt(cv), <<>>, FALSE,
                 IF check THEN checkTypeMismatch(cv.class, "Integer") ELSE "ok")

ScanInt64(cv, check) ==
    IF cv.class = "Null" THEN Scanned(0, <<>>, TRUE, "ok")
    ELSE Scanned(ColumnInt64(cv), <<>>, FALSE,
                 IF check THEN checkTypeMismatch(cv.class, "Integer") ELSE "ok")

ScanByte(cv, check) ==
    IF cv.class = "Null" THEN Scanned(0, <<>>, TRUE, "ok")
    ELSE Scanned(byte(ColumnInt(cv)), <<>>, FALSE,
                 IF check THEN checkTypeMismatch(cv.class, "Integer") ELSE "ok")

ScanBool(cv, check) ==
    IF cv.class = "Null" THEN Scanned(0, <<>>, TRUE, "ok")
    ELSE Scanned(IF ColumnInt(cv) = 1 THEN 1 ELSE 0, <<>>, FALSE,
                 IF check THEN checkTypeMismatch(cv.class, "Integer") ELSE "ok")

ScanDouble(cv, check) ==
    IF cv.class = "Null" THEN Scanned(0, <<>>, TRUE, "ok")
    ELSE Scanned(ColumnDouble(cv), <<>>, FALSE,
                 IF check THEN checkTypeMismatch(cv.class, "Float") ELSE "ok")

\* ScanText and ScanBlob: Null is a NULL pointer from the engine.
ScanText(cv) ==
    IF ColumnText(cv).nil THEN Scanned(0, <<>>, TRUE, "ok")
    ELSE Scanned(0, ColumnText(cv).b, FALSE, "ok")

ScanBlob(cv) ==
    IF ColumnBlob(cv).nil THEN Scanned(0, <<>>, TRUE, "ok")
    ELSE Scanned(0, ColumnBlob(cv).b, FALSE, "ok")

\* A layout picked by a length the code has no case for.
TimeLayout_NoMillisCase(txt) ==
    LET n == Len(txt)
        sep == IF n > 10 /\ txt[11] = 84 THEN "T" ELSE " "
    IN CASE n = 5 -> [form |-> "15:04", sep |-> "", read10 |-> FALSE]
         [] n = 8 -> [form |-> "15:04:05", sep |-> "", read10 |-> FALSE]
         [] n = 10 -> [form |-> "2006-01-02", sep |-> "", read10 |-> FALSE]
         [] n = 16 -> [form |-> "2006-01-02 15:04", sep |-> sep, read10 |-> TRUE]
         [] n = 19 -> [form |-> "2006-01-02 15:04:05", sep |-> sep,
                       read10 |-> TRUE]
         [] n = 23 -> [form |-> "2006-01-02 15:04:05.999", sep |-> sep,
                       read10 |-> TRUE]
         [] OTHER -> [form |-> "2006-01-02 15:04:05.999Z07:00", sep |-> sep,
                      read10 |-> n > 10]

\* The layout ScanTime parses a text with, chosen by the text's length:
\* its form (written with the space separator), the separator of the
\* variant chosen (byte 84 is T) and whether txt[10] was read.
TimeLayout(txt) ==
    LET n == Len(txt)
        sep == IF n > 10 /\ txt[11] = 84 THEN "T" ELSE " "
    IN CASE n = 5 -> [form |-> "15:04", sep |-> "", read10 |-> FALSE]
         [] n = 8 -> [form |-> "15:04:05", sep |-> "", read10 |-> FALSE]
         [] n = 10 -> [form |-> "2006-01-02", sep |-> "", read10 |-> FALSE]
         [] n = 12 -> [form |-> "15:04:05.000", sep |-> "", read10 |-> FALSE]
         [] n = 16 -> [form |-> "2006-01-02 15:04", sep |-> sep, read10 |-> TRUE]
         [] n = 19 -> [form |-> "2006-01-02 15:04:05", sep |-> sep,
                       read10 |-> TRUE]
         [] n = 23 -> [form |-> "2006-01-02 15:04:05.999", sep |-> sep,
                       read10 |-> TRUE]
         [] OTHER -> [form |-> "2006-01-02 15:04:05.999Z07:00", sep |-> sep,
                      read10 |-> n > 10]

\* ScanTime.  A time.Time is written n with b = <<>> for the zero time
\* (n = 0), b = <<85>> for time.Unix(n, 0) and b = <<74>> for the local
\* time of Julian day n (in tenths).  A text is parsed with the layout
\* TimeLayout picks; no text of the model parses as a time with any
\* layout.  A Blob column makes ScanTime panic.
ScanTime(cv) ==
    CASE cv.class = "Null" -> Scanned(0, <<>>, TRUE, "ok")
      [] cv.class = "Text" -> Scanned(0, <<>>, FALSE, "parse")
      [] cv.class = "Integer" -> Scanned(ColumnInt64(cv), <<85>>, FALSE, "ok")
      [] cv.class = "Float" -> Scanned(ColumnDouble(cv), <<74>>, FALSE, "ok")
      [] OTHER -> Scanned(0, <<>>, FALSE, "panic")

\* The destination types: a pointer (*T) or a pointer to a pointer (**T).
SingleKinds ==
    {"*string", "*int", "*int64", "*byte", "*bool", "*float64", "*[]byte",
     "*time.Time"}

DoubleKinds ==
    {"**string", "**int", "**int64", "**byte", "**bool", "**float64",
     "**[]byte"}

DestKinds == SingleKinds \cup DoubleKinds

\* The typed scan the switch of ScanByIndex selects for a destination.
ScanFor(kind, cv, check) ==
    CASE kind \in {"*string", "**string"} -> ScanText(cv)
      [] kind \in {"*int", "**int"} -> ScanInt(cv, check)
      [] kind \in {"*int64", "**int64"} -> ScanInt64(cv, check)
      [] kind \in {"*byte", "**byte"} -> ScanByte(cv, check)
      [] kind \in {"*bool", "**bool"} -> ScanBool(cv, check)
      [] kind \in {"*float64", "**float64"} -> ScanDouble(cv, check)
      [] kind \in {"*[]byte", "**[]byte"} -> ScanBlob(cv)
      [] OTHER -> ScanTime(cv)

\* Destinations only the kind-based dispatch handles: pointers to named
\* types of a reflect.Kind.
ReflectKinds ==
    {"*kind:String", "*kind:Int", "*kind:Uint", "*kind:Bool", "*kind:Float",
     "*kind:Struct"}

\* s.ScanReflect(index, v) for a non-nil pointer: a string is assigned
\* whatever ScanText returns, the other kinds are assigned when the typed
\* scan returns no error, an unsigned one unless the value is negative.
ScanReflect(d, cv, check) ==
    CASE d.kind = "*kind:String" ->
            [d |-> [d EXCEPT !.n = 0, !.b = ScanText(cv).b],
             null |-> ScanText(cv).null, err |-> "ok"]
      [] d.kind \in {"*kind:Int", "*kind:Uint", "*kind:Bool", "*kind:Float"} ->
            LET r == CASE d.kind = "*kind:Bool" -> ScanBool(cv, check)
                       [] d.kind = "*kind:Float" -> ScanDouble(cv, check)
                       [] OTHER -> ScanInt64(cv, check)
            IN IF r.err # "ok" THEN [d |-> d, null |-> r.null, err |-> r.err]
               ELSE IF d.kind = "*kind:Uint" /\ r.n < 0
               THEN [d |-> d, null |-> r.null, err |-> "negative"]
               ELSE [d |-> [d EXCEPT !.n = r.n, !.b = <<>>], null |-> r.null,
                     err |-> "ok"]
      [] OTHER -> [d |-> d, null |-> FALSE, err |-> "unsupported"]

\* A nil destination that is handed on to ScanReflect.
SkipNil_Unsupported(d) == [d |-> d, null |-> FALSE, err |-> "unsupported"]

\* The case nil of ScanByIndex: nothing is read and nothing is written.
SkipNil(d) == [d |-> d, null |-> FALSE, err |-> "ok"]

\* ScanByIndex that assigns through a **T also when the typed scan
\* returns an error.
ScanByIndex_AssignsOnError(d, cv, check) ==
    LET r == ScanFor(d.kind, cv, check)
    IN IF d.kind = "nil" THEN SkipNil(d)
       ELSE IF d.kind \in ReflectKinds THEN ScanReflect(d, cv, check)
       ELSE IF r.err = "panic" THEN [d |-> d, null |-> FALSE, err |-> "panic"]
       ELSE IF d.kind \in SingleKinds
       THEN [d |-> [d EXCEPT !.n = r.n, !.b = r.b], null |-> r.null,
             err |-> r.err]
       ELSE IF r.null
       THEN [d |-> [d EXCEPT !.outer = "nil"], null |-> TRUE, err |-> r.err]
       ELSE IF d.outer = "nil" THEN [d |-> d, null |-> FALSE, err |-> "panic"]
       ELSE [d |-> [d EXCEPT !.n = r.n, !.b = r.b], null |-> FALSE,
             err |-> r.err]

\* s.ScanByIndex(index, value) for destination d and column value cv: the
\* destination afterwards, wasNull and the error.  A destination of kind
\* "nil" is the nil interface value.  *T is assigned whatever the typed
\* scan returns; **T is set to nil for Null, assigned through for a value,
\* and left alone on an error; assigning through a nil pointer panics.
\* Any other pointer goes to ScanReflect.
ScanByIndex(d, cv, check) ==
    LET r == ScanFor(d.kind, cv, check)
    IN IF d.kind = "nil" THEN SkipNil(d)
       ELSE IF d.kind \in ReflectKinds THEN ScanReflect(d, cv, check)
       ELSE IF r.err = "panic" THEN [d |-> d, null |-> FALSE, err |-> "panic"]
       ELSE IF d.kind \in SingleKinds
       THEN [d |-> [d EXCEPT !.n = r.n, !.b = r.b], null |-> r.null,
             err |-> r.err]
       ELSE IF r.err # "ok" THEN [d |-> d, null |-> r.null, err |-> r.err]
       ELSE IF r.null
       THEN [d |-> [d EXCEPT !.outer = "nil"], null |-> TRUE, err |-> "ok"]
       ELSE IF d.outer = "nil" THEN [d |-> d, null |-> FALSE, err |-> "panic"]
       ELSE [d |-> [d EXCEPT !.n = r.n, !.b = r.b], null |-> FALSE,
             err |-> "ok"]

\* The loop of s.Scan(args...) from argument i on, every argument being
\* the destination d, but nil at the positions in nils; cvs are the values
\* of the columns.
RECURSIVE ScanArgs(_, _, _, _, _)
ScanArgs(d, cvs, i, check, nils) ==
    IF i > Len(cvs)
    THEN [d |-> d, err |-> "ok",
          vcalls |-> Cardinality((1..(i - 1)) \ nils)]
    ELSE LET r == IF i \in nils
                  THEN [ScanByIndex([d EXCEPT !.kind = "nil"], cvs[i], check)
                        EXCEPT !.d = d]
                  ELSE ScanByIndex(d, cvs[i], check)
         IN IF r.err # "ok"
            THEN [d |-> r.d, err |-> r.err,
                  vcalls |-> Cardinality((1..i) \ nils)]
            ELSE ScanArgs(r.d, cvs, i + 1, check, nils)

\* The values of the columns 0 .. k - 1 the engine can return.
ColumnRows(o, n, s, k) ==
    {cvs \in [1..k -> StorageValues] :
        \A i \in 1..k : cvs[i] \in ColumnValues(o, n, s, i - 1)}

\* s.ScanByIndex(index, &dst)
ScanByIndexCall(s, index, cv) ==
    /\ Usable(s)
    /\ cv \in ColumnValues(stmts, native, s, index)
    /\ LET r == ScanByIndex(dst, cv, stmts[s].CheckTypeMismatch)
       IN /\ dst' = r.d
          /\ last' = [Returned("ScanByIndex", s, r.err, FALSE,
                               HandleUse(stmts, native, s), FALSE)
                      EXCEPT !.null = r.null, !.vcalls = 1,
                             !.layout = IF dst.kind = "*time.Time"
                                           /\ cv.class = "Text"
                                        THEN TimeLayout(cv.b) ELSE NoLayout]
    /\ UNCHANGED <<stmts, native, cache, out, db, seen, used, cfg, drv, blob, res>>

\* s.Scan(args...) with nargs arguments, each of them &dst, but nil at the
\* positions in nils
Scan(s, nargs, cvs, nils) ==
    /\ Usable(s)
    /\ nils \subseteq 1..nargs
    /\ LET c == ColumnCount(stmts, s)
       IN /\ stmts' = c.o
          /\ cvs \in ColumnRows(stmts, native, s,
                                 IF ArityMismatch(c.n, nargs) THEN 0
                                 ELSE Min(c.n, nargs))
          /\ IF ArityMismatch(c.n, nargs)
             THEN /\ dst' = dst
                  /\ last' = Returned("Scan", s, "arity", FALSE,
                                     IF c.called THEN HandleUse(stmts, native, s)
                                     ELSE "none", FALSE)
             ELSE LET r == ScanArgs(dst, cvs, 1, stmts[s].CheckTypeMismatch,
                                    nils)
                  IN /\ dst' = r.d
                     /\ last' = [Returned("Scan", s, r.err, FALSE,
                                          IF c.called \/ r.vcalls > 0
                                          THEN HandleUse(stmts, native, s)
                                          ELSE "none", FALSE)
                                 EXCEPT !.vcalls = r.vcalls]
    /\ UNCHANGED <<native, cache, out, db, seen, used, cfg, drv, blob, res>>

\* s.ScanByName(name, &dst)
ScanByName(s, name, cv) ==
    /\ Usable(s)
    /\ LET x == columnIndex(stmts, s, name)
       IN /\ stmts' = x.o
          /\ IF x.err # "ok"
             THEN /\ cv = StorageNull
                  /\ dst' = dst
                  /\ last' = Returned("ScanByName", s, x.err, FALSE,
                                     IF x.called THEN HandleUse(stmts, native, s)
                                     ELSE "none", FALSE)
             ELSE /\ cv \in ColumnValues(stmts, native, s, x.index)
                  /\ LET r == ScanByIndex(dst, cv, stmts[s].CheckTypeMismatch)
                     IN /\ dst' = r.d
                        /\ last' = [Returned("ScanByName", s, r.err, FALSE,
                                             HandleUse(stmts, native, s), FALSE)
                                    EXCEPT !.null = r.null, !.vcalls = 1]
    /\ UNCHANGED <<native, cache, out, db, seen, used, cfg, drv, blob, res>>

\* s.NamedScan(name, &dst), with odd a third argument, and with nilFirst
\* s.NamedScan("x", nil, name, &dst)
NamedScan(s, name, odd, nilFirst, cv) ==
    /\ Usable(s)
    /\ IF odd
       THEN /\ cv = StorageNull /\ ~nilFirst
            /\ UNCHANGED <<stmts, dst>>
            /\ last' = Returned("NamedScan", s, "arity", FALSE, "none", FALSE)
       ELSE LET f == IF nilFirst THEN columnIndex(stmts, s, "x")
                     ELSE [o |-> stmts, index |-> 0, err |-> "ok",
                           called |-> FALSE]
                k == IF nilFirst /\ f.err = "ok"
                     THEN ScanByIndex([dst EXCEPT !.kind = "nil"], StorageNull,
                                      stmts[s].CheckTypeMismatch)
                     ELSE [d |-> dst, null |-> FALSE, err |-> f.err]
                x == columnIndex(f.o, s, name)
                nat == IF f.called \/ x.called
                       THEN HandleUse(stmts, native, s) ELSE "none"
            IN IF k.err # "ok"
               THEN /\ cv = StorageNull
                    /\ stmts' = f.o
                    /\ dst' = dst
                    /\ last' = Returned("NamedScan", s, k.err, FALSE,
                                       IF f.called
                                       THEN HandleUse(stmts, native, s)
                                       ELSE "none", FALSE)
               ELSE /\ stmts' = x.o
                    /\ IF x.err # "ok"
                       THEN /\ cv = StorageNull
                            /\ dst' = dst
                            /\ last' = Returned("NamedScan", s, x.err, FALSE,
                                               nat, FALSE)
                       ELSE /\ cv \in ColumnValues(stmts, native, s, x.index)
                            /\ LET r == ScanByIndex(dst, cv,
                                                    stmts[s].CheckTypeMismatch)
                               IN /\ dst' = r.d
                                  /\ last' = [Returned("NamedScan", s, r.err,
                                                       FALSE,
                                                       HandleUse(stmts, native, s),
                                                       FALSE)
                                              EXCEPT !.vcalls = 1]
    /\ UNCHANGED <<native, cache, out, db, seen, used, cfg, drv, blob, res>>

\* The caller takes a new destination variable of some type.
Retarget(kind) ==
    /\ dst # NewDest(kind)
    /\ dst' = NewDest(kind)
    /\ last' = Returned("Retarget", 0, "ok", FALSE, "none", FALSE)
    /\ UNCHANGED <<stmts, native, cache, out, db, seen, used, cfg, drv, blob, res>>

\* The caller sets the public field CheckTypeMismatch of a statement.
SetCheckTypeMismatch(s, b) ==
    /\ stmts[s].ret /\ stmts[s].CheckTypeMismatch # b
    /\ stmts' = [stmts EXCEPT ![s].CheckTypeMismatch = b]
    /\ last' = Returned("SetCheckTypeMismatch", s, "ok", FALSE, "none", FALSE)
    /\ UNCHANGED <<native, cache, out, db, seen, used, dst, cfg, drv, blob, res>>

\* ------------------------------------------------------ specifications
\* Prepare and Finalize calls in any order on a live connection.
NextCache ==
    \/ \E cmd \in Texts, bind \in {"none", "ok", "fail"}, rvPrep \in Rvs,
          rvFin \in Rvs : Prepare(cmd, bind, rvPrep, rvFin)
    \/ \E s \in Ids, rvClear \in Rvs, rvFin \in Rvs : Finalize(s, rvClear, rvFin)

Spec == Init /\ [][NextCache]_vars

\* The life of statements on a connection that may close: one caller that
\* prepares a statement when it holds none and may clear Cacheable.
NextLife ==
    \/ \E cmd \in Texts, bind \in {"none", "fail"}, rvFin \in Rvs :
          (\A x \in Ids : out[x] = 0) /\ Prepare(cmd, bind, RvOk, rvFin)
    \/ \E s \in Ids, rvClear \in Rvs, rvFin \in Rvs : Finalize(s, rvClear, rvFin)
    \/ \E s \in Ids : DisableCache(s)
    \/ Close

SpecLife == Init /\ [][NextLife]_vars

\* Stepping: one caller that prepares a query (rows) or a command (no
\* rows) when it holds no statement, and steps or resets any statement it
\* has been given that is not idle in the cache.
NextCursor ==
    \/ \E cmd \in {<<1>>, <<2>>} :
          (\A x \in Ids : out[x] = 0) /\ Prepare(cmd, "none", RvOk, RvOk)
    \/ \E s \in Ids, rvClear \in Rvs, rvFin \in Rvs : Finalize(s, rvClear, rvFin)
    \/ \E s \in Ids : DisableCache(s)
    \/ \E s \in Ids, rv \in {RvRow, RvDone, RvErr, RvMisuse} :
          ~InCache(s) /\ Next(s, rv)
    \/ \E s \in Ids : ~InCache(s) /\ Reset(s)

SpecCursor == Init /\ [][NextCursor]_vars

\* Binding: one statement, bound with values of every type and stepped.
BindArgLists ==
    {<<>>, <<HostValue("nil", 0, <<>>), HostValue("nil", 0, <<>>),
             HostValue("nil", 0, <<>>)>>}
    \cup {<<v>> : v \in BindValues}
    \cup {<<v, w>> : v \in BindValues,
                     w \in {HostValue("nil", 0, <<>>),
                            HostValue("kind:Struct", 0, <<>>)}}

NextBind ==
    \/ \E cmd \in {<<1>>, <<2>>} :
          (\A x \in Ids : ~stmts[x].made) /\ Prepare(cmd, "none", RvOk, RvOk)
    \/ \E s \in Ids, args \in BindArgLists, failAt \in 0..2 :
          Bind(s, args, failAt)
    \/ \E b \in BOOLEAN : SetNullIfEmptyString(b)
    \/ \E b \in BOOLEAN : SetNullIfZeroTime(b)
    \/ \E s \in Ids, rv \in {RvRow, RvDone, RvErr} : Next(s, rv)
    \/ \E s \in Ids : Reset(s)

SpecBind == Init /\ [][NextBind]_vars

\* Arguments that bind the first parameter to a value of each storage
\* class.
ClassArgLists ==
    {<<v, HostValue("nil", 0, <<>>)>> :
        v \in {HostValue("nil", 0, <<>>), HostValue("int64", 1, <<>>),
               HostValue("float64", 15, <<>>), HostValue("string", 0, <<97>>),
               HostValue("kind:String", 0, <<>>), HostValue("[]byte", 0, <<7>>)}}

\* Scanning: one query, its first parameter bound to a value of each
\* storage class, stepped and scanned into destinations of every type.
NextScan ==
    \/ (\A x \in Ids : ~stmts[x].made) /\ Prepare(<<1>>, "none", RvOk, RvOk)
    \/ \E s \in Ids, args \in ClassArgLists : Bind(s, args, 0)
    \/ \E s \in Ids, rv \in {RvRow, RvDone, RvErr} : Next(s, rv)
    \/ \E kind \in DestKinds : Retarget(kind)
    \/ \E s \in Ids, b \in BOOLEAN : SetCheckTypeMismatch(s, b)
    \/ \E s \in Ids, cv \in StorageValues : ScanByIndexCall(s, 0, cv)

SpecScan == Init /\ [][NextScan]_vars

\* Argument lists with none, one and two values.
NamesArgLists ==
    {<<>>, <<HostValue("int64", 1, <<>>)>>,
     <<HostValue("int64", 1, <<>>), HostValue("nil", 0, <<>>)>>,
     <<HostValue("nil", 0, <<>>), HostValue("nil", 0, <<>>)>>}

\* Counts and names: one query, bound and scanned with any number of
\* arguments, its parameters and columns looked up by name.
NextNames ==
    \/ (\A x \in Ids : ~stmts[x].made) /\ Prepare(<<1>>, "none", RvOk, RvOk)
    \/ \E s \in Ids, args \in NamesArgLists : Bind(s, args, 0)
    \/ \E s \in Ids, rv \in {RvRow, RvDone, RvErr} : Next(s, rv)
    \/ \E s \in Ids, name \in {":a", ":b", ":zz"} : BindParameterIndex(s, name)
    \/ \E s \in Ids, name \in {"x", "zz"} : ColumnIndex(s, name)
    \/ \E kind \in {"*int", "**int"} : Retarget(kind)
    \/ \E s \in Ids, cv \in StorageValues : ScanByIndexCall(s, 0, cv)
    \/ \E s \in Ids, nargs \in 0..2, cvs \in [1..1 -> StorageValues] \cup {<<>>} :
          Scan(s, nargs, cvs, {})
    \/ \E s \in Ids, name \in {"x", "zz"}, cv \in StorageValues :
          ScanByName(s, name, cv)
    \/ \E s \in Ids, name \in {"x", "zz"}, odd \in BOOLEAN,
          cv \in StorageValues : NamedScan(s, name, odd, FALSE, cv)

SpecNames == Init /\ [][NextNames]_vars

\* Argument lists for Exec: good ones, one of the wrong length and one
\* with a value no bind supports.
ExecArgLists ==
    {<<>>, <<HostValue("int64", 1, <<>>)>>, <<HostValue("string", 0, <<97>>)>>,
     <<HostValue("kind:Struct", 0, <<>>)>>,
     <<HostValue("int64", 1, <<>>), HostValue("nil", 0, <<>>)>>,
     <<HostValue("string", 0, <<97>>), HostValue("int64", 1, <<>>)>>}

\* Executing: one caller that prepares a command or a query when it holds
\* no statement, and executes, steps and finalizes it.
NextExec ==
    \/ \E cmd \in {<<1>>, <<2>>} :
          (\A x \in Ids : out[x] = 0) /\ Prepare(cmd, "none", RvOk, RvOk)
    \/ \E s \in Ids : out[s] > 0 /\ Finalize(s, RvOk, RvOk)
    \/ \E s \in Ids, args \in ExecArgLists, failAt \in 0..2,
          rv \in {RvRow, RvDone, RvErr} :
          out[s] > 0 /\ Exec(s, args, failAt, rv)
    \/ \E s \in Ids, rv \in {RvRow, RvDone, RvErr} : out[s] > 0 /\ Next(s, rv)

SpecExec == Init /\ [][NextExec]_vars

\* Argument lists for ExecDml and Insert: good ones, one of the wrong
\* length and one with a value no bind supports.
DmlArgLists ==
    {<<>>, <<HostValue("int64", 1, <<>>)>>,
     <<HostValue("kind:Struct", 0, <<>>)>>}

\* Changing data: one caller that prepares a command or a query when it
\* holds no statement, executes it for its change count or its rowid,
\* steps it and finalizes it.
NextDml ==
    \/ \E cmd \in {<<1>>, <<2>>} :
          (\A x \in Ids : out[x] = 0) /\ Prepare(cmd, "none", RvOk, RvOk)
    \/ \E s \in Ids : out[s] > 0 /\ Finalize(s, RvOk, RvOk)
    \/ \E s \in Ids, rv \in {RvRow, RvDone, RvErr} : out[s] > 0 /\ Next(s, rv)
    \/ \E s \in Ids, args \in DmlArgLists, failAt \in 0..1,
          rv \in {RvRow, RvDone, RvErr}, changes \in 0..MaxChanges :
          out[s] > 0 /\ ExecDml(s, args, failAt, rv, changes)
    \/ \E s \in Ids, args \in DmlArgLists, failAt \in 0..1,
          rv \in {RvRow, RvDone, RvErr}, changes \in 0..MaxChanges,
          rowid \in 1..MaxRowid :
          out[s] > 0 /\ Insert(s, args, failAt, rv, changes, rowid)

SpecDml == Init /\ [][NextDml]_vars

\* Which Next call and which callback invocation of a Select fail.
SelectPlans == [failStep : 0..(MaxRows + 1), failCall : 0..MaxRows]

\* Selecting: one caller that prepares a query or a command when it holds
\* no statement, and selects, steps, resets and finalizes it.
NextSelect ==
    \/ \E cmd \in {<<1>>, <<2>>} :
          (\A x \in Ids : out[x] = 0) /\ Prepare(cmd, "none", RvOk, RvOk)
    \/ \E s \in Ids : out[s] > 0 /\ Finalize(s, RvOk, RvOk)
    \/ \E s \in Ids, args \in ExecArgLists, failAt \in 0..1,
          plan \in SelectPlans : out[s] > 0 /\ Select(s, args, failAt, plan)
    \/ \E s \in Ids, rv \in {RvRow, RvDone, RvErr} : out[s] > 0 /\ Next(s, rv)
    \/ \E s \in Ids : out[s] > 0 /\ Reset(s)

SpecSelect == Init /\ [][NextSelect]_vars

\* Errors and their SQL text: one caller that prepares statements, with
\* arguments whose bind fails or without, and reads their text, steps and
\* finalizes them.
NextText ==
    \/ \E cmd \in {<<1>>, <<2>>}, bind \in {"none", "fail"}, rvFin \in Rvs :
          (\A x \in Ids : out[x] = 0) /\ Prepare(cmd, bind, RvOk, rvFin)
    \/ \E s \in Ids, rvClear \in Rvs, rvFin \in Rvs :
          out[s] > 0 /\ Finalize(s, rvClear, rvFin)
    \/ \E s \in Ids : DisableCache(s)
    \/ \E s \in Ids : out[s] > 0 /\ SQL(s)
    \/ \E s \in Ids, rv \in {RvRow, RvDone, RvErr} : out[s] > 0 /\ Next(s, rv)

SpecText == Init /\ [][NextText]_vars

\* A text of a given length with a given byte at offset 10, the other
\* bytes being the digit 0.
TimeText(len, sep) == [i \in 1..len |-> IF i = 11 THEN sep ELSE 48]

\* Texts of every length up to MaxTextLen, with T (84), a space (32) and a
\* digit at offset 10.
TimeArgLists ==
    {<<HostValue("string", 0, TimeText(len, sep)), HostValue("nil", 0, <<>>)>> :
        len \in 0..MaxTextLen, sep \in {84, 32, 48}}

\* Times: one query whose first parameter is bound to a text, stepped and
\* scanned into a time.Time.
NextTime ==
    \/ (\A x \in Ids : ~stmts[x].made) /\ Prepare(<<1>>, "none", RvOk, RvOk)
    \/ \E s \in Ids, args \in TimeArgLists : Bind(s, args, 0)
    \/ \E s \in Ids, rv \in {RvRow, RvDone} : Next(s, rv)
    \/ \E kind \in {"*time.Time", "*string"} : Retarget(kind)
    \/ \E s \in Ids :
          HasRow(stmts, native, s) /\ ScanByIndexCall(s, 0, native[s].binds[1])

SpecTime == Init /\ [][NextTime]_vars

\* Values for the two parameters of a query with two columns.
SkipArgLists ==
    {<<v, w>> : v \in {HostValue("int64", 1, <<>>), HostValue("nil", 0, <<>>)},
                w \in {HostValue("int64", 0, <<>>),
                       HostValue("string", 0, <<97>>)}}

\* Partial scans: one query with two columns, bound, stepped and scanned
\* with nil in the place of some destinations.
NextSkip ==
    \/ (\A x \in Ids : ~stmts[x].made) /\ Prepare(<<3>>, "none", RvOk, RvOk)
    \/ \E s \in Ids, args \in SkipArgLists : Bind(s, args, 0)
    \/ \E s \in Ids, rv \in {RvRow, RvDone} : Next(s, rv)
    \/ \E kind \in {"*int64", "*string", "nil"} : Retarget(kind)
    \/ \E s \in Ids, index \in 0..1 :
          /\ HasRow(stmts, native, s)
          /\ ScanByIndexCall(s, index, native[s].binds[index + 1])
    \/ \E s \in Ids, nargs \in 1..2, nils \in SUBSET (1..2) :
          /\ HasRow(stmts, native, s)
          /\ Scan(s, nargs, IF nargs = 2 THEN native[s].binds ELSE <<>>, nils)
    \/ \E s \in Ids, name \in {"x", "y", "zz"}, nilFirst \in BOOLEAN :
          /\ HasRow(stmts, native, s)
          /\ NamedScan(s, name, FALSE, nilFirst,
                       IF name = "x" THEN native[s].binds[1]
                       ELSE IF name = "y" THEN native[s].binds[2]
                       ELSE StorageNull)
    \/ \E s \in Ids : NamedScan(s, "x", TRUE, FALSE, StorageNull)

SpecSkip == Init /\ [][NextSkip]_vars

\* Argument lists for binds that fail part of the way: values that bind,
\* a value of an unsupported type and one that overflows; names of the
\* two parameters, an unknown name and a name that is not a string.
PartialArgLists ==
    {<<v, w>> : v \in {HostValue("int64", 1, <<>>),
                       HostValue("string", 0, <<97>>),
                       HostValue("kind:Struct", 0, <<>>)},
                w \in {HostValue("string", 0, <<97>>),
                       HostValue("kind:Struct", 0, <<>>),
                       HostValue("kind:Uint", MaxInt64 + 1, <<>>)}}
    \cup {<<HostValue("int64", 1, <<>>)>>}

PartialPairLists ==
    {<<p, q>> :
        p \in {<<NameArg(TRUE, name), HostValue("string", 0, <<97>>)>> :
                 name \in {":a", ":b", ":zz"}},
        q \in {<<NameArg(TRUE, ":a"), HostValue("int64", 1, <<>>)>>,
               <<NameArg(TRUE, ":b"), HostValue("kind:Struct", 0, <<>>)>>,
               <<NameArg(TRUE, ":zz"), HostValue("int64", 1, <<>>)>>,
               <<NameArg(FALSE, ""), HostValue("int64", 1, <<>>)>>}}

\* Binds that fail part of the way: one statement with two parameters,
\* bound by position and by name, stepped and reset.
NextPartial ==
    \/ (\A x \in Ids : ~stmts[x].made) /\ Prepare(<<3>>, "none", RvOk, RvOk)
    \/ \E s \in Ids, args \in PartialArgLists, failAt \in 0..2 :
          Bind(s, args, failAt)
    \/ \E s \in Ids, pairs \in PartialPairLists, odd \in BOOLEAN,
          failAt \in 0..2 : NamedBind(s, pairs, odd, failAt)
    \/ \E s \in Ids, rv \in {RvRow, RvDone} : Next(s, rv)
    \/ \E s \in Ids : Reset(s)

SpecPartial == Init /\ [][NextPartial]_vars

\* Argument lists for Query on a statement with two parameters: none,
\* one for each parameter, and one too many.
QueryArgLists ==
    {<<>>,
     <<HostValue("int64", 1, <<>>), HostValue("string", 0, <<97>>)>>,
     <<HostValue("int64", 1, <<>>), HostValue("string", 0, <<97>>),
       HostValue("nil", 0, <<>>)>>}

\* The database/sql driver: one statement that is compiled, queried, read
\* and closed, and its Rows closed, each of them any number of times.
NextDriver ==
    \/ (\A x \in Ids : ~stmts[x].made) /\ Prepare(<<1>>, "none", RvOk, RvOk)
    \/ \E s \in Ids, args \in QueryArgLists, failAt \in 0..1 :
          Query(s, args, failAt)
    \/ \E s \in Ids, rv \in {RvRow, RvDone} :
          drv[s].open > 0 /\ Usable(s) /\ Next(s, rv)
    \/ \E s \in Ids, again \in BOOLEAN, rvClear \in Rvs, rvFin \in Rvs :
          RowsClose(s, again, rvClear, rvFin)
    \/ \E s \in Ids, rvClear \in Rvs, rvFin \in Rvs :
          StmtClose(s, rvClear, rvFin)

SpecDriver == Init /\ [][NextDriver]_vars

\* ------------------------------------------------- incremental BLOB I/O
\* What a call on the BlobReader returned.
BlobReturned(b, op, n, err) == [b EXCEPT !.op = op, !.n = n, !.err = err]

\* c.NewBlobReadWriter(...) on a BLOB of the given size: the handle, size
\* not asked yet, offset 0.
NewBlobReadWriter(bytes) ==
    /\ blob.bl = "nil"
    /\ blob' = [NoBlob EXCEPT !.bl = "open", !.bytes = bytes, !.op = "Open"]
    /\ UNCHANGED <<stmts, native, cache, out, db, seen, used, last, dst, cfg,
                   drv, res>>

\* r.Size(): an error on a closed reader; else the size, asked from the
\* engine the first time and kept.
BlobSize(b) ==
    IF b.bl = "nil" THEN [b |-> b, size |-> 0, err |-> "closed"]
    ELSE LET z == IF b.size < 0 THEN b.bytes ELSE b.size
         IN [b |-> [b EXCEPT !.size = z], size |-> z, err |-> "ok"]

\* sqlite3_blob_read and sqlite3_blob_write succeed only for a byte range
\* inside the BLOB.
InsideBlob(bytes, off, n) == off >= 0 /\ n >= 0 /\ off + n <= bytes

\* The body Read and Write share, for a buffer of len bytes: nothing for
\* an empty buffer; the size; end of file at or past the size; the buffer
\* cut to what is left; the native call at the offset; the offset moved
\* by what was transferred.  Write reports end of file when it cut.
BlobTransfer(b, op, len, rv) ==
    IF len = 0 THEN BlobReturned(b, op, 0, "ok")
    ELSE LET z == BlobSize(b)
         IN IF z.err # "ok" THEN BlobReturned(z.b, op, 0, z.err)
            ELSE IF z.b.offset >= z.size THEN BlobReturned(z.b, op, 0, "EOF")
            ELSE LET cut == len > z.size - z.b.offset
                     n == IF cut THEN z.size - z.b.offset ELSE len
                     io == [op |-> op, off |-> z.b.offset, n |-> n,
                            of |-> z.b.bytes]
                 IN IF rv # RvOk
                    THEN BlobReturned([z.b EXCEPT !.io = io], op, 0, "native")
                    ELSE BlobReturned([z.b EXCEPT !.io = io,
                                                  !.offset = z.b.offset + n],
                                      op, n,
                                      IF cut /\ op = "Write" THEN "EOF"
                                      ELSE "ok")

\* Whether the call reaches the native read or write.
BlobTransfers(b, len) ==
    len > 0 /\ b.bl # "nil" /\ b.offset < b.bytes

\* r.Read(v) with len(v) = len; rv is the result of sqlite3_blob_read.
BlobRead(len, rv) ==
    /\ blob.op # ""
    /\ IF BlobTransfers(blob, len)
       THEN rv = RvOk <=> InsideBlob(blob.bytes, blob.offset,
                                     Min(len, blob.bytes - blob.offset))
       ELSE rv = RvOk
    /\ blob' = BlobTransfer(blob, "Read", len, rv)
    /\ UNCHANGED <<stmts, native, cache, out, db, seen, used, last, dst, cfg,
                   drv, res>>

\* w.Write(v) with len(v) = len; rv is the result of sqlite3_blob_write.
BlobWrite(len, rv) ==
    /\ blob.op # ""
    /\ IF BlobTransfers(blob, len)
       THEN rv = RvOk <=> InsideBlob(blob.bytes, blob.offset,
                                     Min(len, blob.bytes - blob.offset))
       ELSE rv = RvOk
    /\ blob' = BlobTransfer(blob, "Write", len, rv)
    /\ UNCHANGED <<stmts, native, cache, out, db, seen, used, last, dst, cfg,
                   drv, res>>

\* Where Seek puts the offset: whence 0 sets it, 1 adds to it, 2 counts
\* from the size; any other whence is an error.
SeekResult(b, offset, whence) ==
    IF whence = 0 THEN BlobReturned([b EXCEPT !.offset = offset],
                                    "Seek", offset, "ok")
    ELSE IF whence = 1 THEN BlobReturned([b EXCEPT !.offset = b.offset + offset],
                                         "Seek", b.offset + offset, "ok")
    ELSE IF whence = 2
    THEN LET z == BlobSize(b)
         IN IF z.err # "ok" THEN BlobReturned(z.b, "Seek", 0, z.err)
            ELSE BlobReturned([z.b EXCEPT !.offset = z.size + offset],
                              "Seek", z.size + offset, "ok")
    ELSE BlobReturned(b, "Seek", 0, "bad seek mode")

\* r.Seek(offset, whence).
BlobSeek(offset, whence) ==
    /\ blob.op # ""
    /\ LET r == SeekResult(blob, offset, whence)
       IN /\ r.offset \in (0 - MaxSeek)..MaxSeek
          /\ blob' = r
    /\ UNCHANGED <<stmts, native, cache, out, db, seen, used, last, dst, cfg,
                   drv, res>>

\* r.Reopen(rowid) onto a BLOB of the given size; rv is the result of
\* sqlite3_blob_reopen.  On success the size is forgotten and the offset
\* is 0; on failure the reader is left as it is.
BlobReopen(bytes, rv) ==
    /\ blob.bl = "open"
    /\ blob' = IF rv # RvOk THEN BlobReturned(blob, "Reopen", 0, "native")
               ELSE BlobReturned([blob EXCEPT !.bytes = bytes, !.size = -1,
                                              !.offset = 0, !.io = NoIo],
                                 "Reopen", 0, "ok")
    /\ UNCHANGED <<stmts, native, cache, out, db, seen, used, last, dst, cfg,
                   drv, res>>

\* r.Close(); rv is the result of sqlite3_blob_close.
BlobClose(rv) ==
    /\ blob.bl = "open"
    /\ blob' = IF rv # RvOk THEN BlobReturned(blob, "Close", 0, "native")
               ELSE BlobReturned([blob EXCEPT !.bl = "nil"], "Close", 0, "ok")
    /\ UNCHANGED <<stmts, native, cache, out, db, seen, used, last, dst, cfg,
                   drv, res>>

\* Incremental I/O: one reader that is opened on a BLOB, read, written,
\* positioned, moved to another row and closed.
NextBlob ==
    \/ \E bytes \in 0..MaxBlobBytes : blob.op = "" /\ NewBlobReadWriter(bytes)
    \/ \E len \in 0..MaxBuf, rv \in Rvs : BlobRead(len, rv)
    \/ \E len \in 0..MaxBuf, rv \in Rvs : BlobWrite(len, rv)
    \/ \E offset \in (0 - MaxSeek)..MaxSeek, whence \in 0..3 :
          BlobSeek(offset, whence)
    \/ \E bytes \in 0..MaxBlobBytes, rv \in Rvs : BlobReopen(bytes, rv)
    \/ BlobClose(RvOk)

SpecBlob == Init /\ [][NextBlob]_vars

\* The public flags: one caller that prepares a statement when it holds
\* none, sets the flags of the statement it holds and finalizes it.
NextFlags ==
    \/ \E cmd \in Texts, bind \in {"none", "ok", "fail"}, rvFin \in Rvs :
          (\A x \in Ids : out[x] = 0) /\ Prepare(cmd, bind, RvOk, rvFin)
    \/ \E s \in Ids, rvClear \in Rvs, rvFin \in Rvs :
          out[s] > 0 /\ Finalize(s, rvClear, rvFin)
    \/ \E s \in Ids : DisableCache(s)
    \/ \E s \in Ids, b \in BOOLEAN : out[s] > 0 /\ SetCheckTypeMismatch(s, b)

SpecFlags == Init /\ [][NextFlags]_vars

\* ======================================================== claims C1..C10

\* C1: a statement idle in the cache is never also checked out, and no
\* statement (native handle) is checked out by two callers at once, whatever
\* Prepare and Finalize calls were made, repeated Finalize included.
C1_IdleNeverCheckedOut ==
    \A s \in Ids : (InCache(s) => out[s] = 0) /\ out[s] <= 1

\* C2: a successful Prepare(S) returns a statement no caller holds; when no
\* idle entry has text S it is freshly compiled, and when one has, it is an
\* idle entry with text S and nothing is compiled.
C2_DistinctThenReused ==
    [][last'.op = "Prepare" /\ last'.s # 0 =>
         LET s == last'.s
             idle == {i \in 1..Len(cache) : stmts[cache[i]].sql = stmts'[s].sql}
         IN /\ out[s] = 0
            /\ idle = {} => ~stmts[s].made
            /\ idle # {} => /\ InCache(s)
                            /\ \A x \in Ids : stmts'[x].made = stmts[x].made]_vars

\* C3: the cache never holds more idle statements than its capacity.
C3_CacheWithinCapacity == Len(cache) <= CacheSize

\* C3 witness: a release into a full cache has evicted an entry.
C3_Witness ==
    /\ last.op = "Finalize" /\ last.err = "ok"
    /\ Len(cache) = CacheSize /\ cache[1] = last.s
    /\ last.evicted # 0 /\ ~InCache(last.evicted) /\ used.stale = 0

\* C4: when a release makes the cache exceed its capacity, the entry evicted
\* is the least recently used one and its native handle is destroyed exactly
\* once: it is not live afterwards, and the eviction does not call
\* sqlite3_finalize on a handle that was destroyed before.
C4_EvictsLruDestroyedOnce ==
    [][last'.op = "Finalize" /\ last'.evicted # 0 =>
         LET v == last'.evicted
         IN /\ Len(cache) = CacheSize /\ v = cache[Len(cache)]
            /\ native'[v].state = "dead"
            /\ ~(stmts[v].stmt = "set" /\ native[v].state = "dead")]_vars

\* C5: Prepare(cmd) takes a statement from the cache only if an idle entry
\* has exactly the text cmd; it then takes the most recently used such entry
\* and removes that entry from the cache, compiling nothing.  When no idle
\* entry has the text cmd the cache is left unchanged and a statement that
\* is returned is newly compiled.
C5_FindExactMostRecent ==
    [][\A cmd \in Texts, bind \in {"none", "ok", "fail"}, rvPrep \in Rvs,
          rvFin \in Rvs :
         Prepare(cmd, bind, rvPrep, rvFin) =>
           LET hits == {i \in 1..Len(cache) : stmts[cache[i]].sql = cmd}
           IN /\ hits = {} =>
                   /\ cache' = cache
                   /\ last'.s # 0 => ~stmts[last'.s].made
              /\ hits # {} =>
                   LET i == CHOOSE i \in hits : \A j \in hits : i <= j
                   IN /\ cache' = RemoveAt(cache, i)
                      /\ last'.s # 0 => last'.s = cache[i]
                      /\ \A x \in Ids : stmts'[x].made = stmts[x].made]_vars

\* C5 witness: Prepare returned one of two idle statements with the same
\* text, and the other one is still idle.
C5_Witness ==
    /\ last.op = "Prepare" /\ last.s # 0 /\ out[last.s] = 1
    /\ used.stale = 0
    /\ \E i \in 1..Len(cache) :
          /\ cache[i] # last.s
          /\ stmts[cache[i]].sql = stmts[last.s].sql

\* C6: when the release of a statement fails to reset its bindings, the
\* native handle is destroyed, nothing is inserted into the cache, and the
\* statement is not in the cache afterwards.
C6_ResetFailureDestroys ==
    [][\A s \in Ids, rvClear \in Rvs, rvFin \in Rvs :
         /\ Finalize(s, rvClear, rvFin)
         /\ stmts[s].Cacheable /\ db
         /\ (rvClear # RvOk \/ stmts[s].stmt = "nil")
         => /\ cache' = cache
            /\ native'[s].state = "dead"
            /\ \A i \in 1..Len(cache') : cache'[i] # s]_vars

\* C7: when a release evicts an entry and sqlite3_finalize fails on the
\* evicted entry's handle, the failure is logged, Finalize returns nil and
\* the released statement is the cache's most recently used entry.
C7_EvictionFailureLoggedOnly ==
    [][\A s \in Ids, rvFin \in Rvs :
         /\ Finalize(s, RvOk, rvFin)
         /\ stmts[s].Cacheable /\ db /\ stmts[s].stmt = "set"
         /\ Len(cache) >= CacheSize
         /\ stmts[cache[Len(cache)]].stmt = "set" /\ rvFin # RvOk
         => /\ last'.err = "ok"
            /\ last'.logged
            /\ Len(cache') > 0 /\ cache'[1] = s]_vars

\* C7 witness: a Finalize has evicted a statement whose sqlite3_finalize
\* failed, and returned nil with the released statement cached.
C7_Witness ==
    /\ last.op = "Finalize" /\ last.err = "ok" /\ last.logged
    /\ last.evicted # 0 /\ last.evicted # last.s /\ used.stale = 0
    /\ stmts[last.evicted].stmt = "set"
    /\ native[last.evicted].state = "dead"
    /\ cache[1] = last.s

\* C8 as stated: Finalize on a Cacheable statement of a live connection
\* goes to the cache's release and does not itself destroy the handle (the
\* release keeps the handle unless the reset of the bindings fails or the
\* statement is the idle entry it evicts); in every other case Finalize on
\* a statement that still has its handle calls sqlite3_finalize, which
\* destroys the handle.
C8_CacheOrDestroy ==
    [][\A s \in Ids, rvClear \in Rvs, rvFin \in Rvs :
         Finalize(s, rvClear, rvFin) =>
           IF stmts[s].Cacheable /\ db
           THEN IF rvClear = RvOk /\ stmts[s].stmt = "set"
                THEN /\ Len(cache') > 0 /\ cache'[1] = s
                     /\ \/ native'[s].state = native[s].state
                        \/ Len(cache) >= CacheSize /\ cache[Len(cache)] = s
                ELSE cache' = cache /\ native'[s].state = "dead"
           ELSE /\ cache' = cache
                /\ stmts[s].stmt = "set" =>
                      last'.nat # "none" /\ native'[s].state = "dead"]_vars

\* C8 amended: Finalize on a Cacheable statement of a live connection goes
\* to the cache's release: when the reset of the bindings succeeds the
\* statement becomes the most recently used entry and its handle is left as
\* it is (unless the statement was already the idle entry this release
\* evicts), and when the reset fails the handle is destroyed and nothing is
\* inserted.  Finalize on any other statement leaves the cache alone: with
\* the handle already nil it does nothing and returns nil; with a live
\* connection it calls sqlite3_finalize, which destroys the handle; with a
\* closed connection it returns an error and makes no native call.
C8_CacheOrDestroyUnlessClosed ==
    [][\A s \in Ids, rvClear \in Rvs, rvFin \in Rvs :
         Finalize(s, rvClear, rvFin) =>
           IF stmts[s].Cacheable /\ db
           THEN IF rvClear = RvOk /\ stmts[s].stmt = "set"
                THEN /\ Len(cache') > 0 /\ cache'[1] = s
                     /\ \/ native'[s].state = native[s].state
                        \/ Len(cache) >= CacheSize /\ cache[Len(cache)] = s
                ELSE cache' = cache /\ native'[s].state = "dead"
           ELSE /\ cache' = cache
                /\ IF stmts[s].stmt = "nil"
                   THEN /\ last'.err = "ok" /\ last'.nat = "none"
                        /\ native' = native /\ stmts' = stmts
                   ELSE IF db
                   THEN last'.nat # "none" /\ native'[s].state = "dead"
                   ELSE /\ last'.err = "closed" /\ last'.nat = "none"
                        /\ native' = native /\ stmts' = stmts]_vars

\* C8 witness: Finalize was called after the connection closed, on a
\* statement that still has its handle, and returned the error.
C8_Witness ==
    /\ last.op = "Finalize" /\ last.err = "closed" /\ ~db
    /\ stmts[last.s].stmt = "set"

\* C9: a Next or Reset on a statement whose handle finalize has destroyed
\* returns a use-after-finalize error without passing the handle to the
\* engine; the engine is only ever called with a live handle.
C9_UseAfterFinalizeRejected ==
    (last.op = "Next" \/ last.op = "Reset") /\ last.nat # "live"
        => last.nat = "none" /\ last.err = "finalized"

\* C10: on a live statement and with no engine error, Next reports a row
\* exactly while fewer rows than the statement yields have been reported
\* since it last restarted, and otherwise reports completion; it returns no
\* error.  So N rows are reported, then completion, in that order only.
C10_RowsThenFinished ==
    [][\A s \in Ids, rv \in {RvRow, RvDone} :
         Next(s, rv) /\ HandleUse(stmts, native, s) = "live"
         => /\ last'.err = "ok"
            /\ last'.row <=> seen[s] < NRows(stmts[s].sql)
            /\ ~last'.row => seen[s] = NRows(stmts[s].sql) /\ seen'[s] = 0]_vars

\* C10 witness: Next has reported completion, with no error, for a live
\* statement that yields MaxRows rows.
C10_Witness ==
    /\ last.op = "Next" /\ ~last.row /\ last.err = "ok" /\ last.nat = "live"
    /\ NRows(stmts[last.s].sql) = MaxRows /\ MaxRows > 0
    /\ used.faults = 0 /\ used.stale = 0

\* ======================================================= claims C11..C20

ScanOps == {"Scan", "NamedScan", "ScanByIndex", "ScanByName"}

\* C11: a scan call (Scan, NamedScan, ScanByIndex, ScanByName) that reads a
\* column while the statement has no current row returns a misuse error
\* and leaves the destination as it was.
C11_ScanWithoutRowIsMisuse ==
    [][last'.op \in ScanOps /\ last'.vcalls > 0
       /\ ~HasRow(stmts, native, last'.s)
       => last'.err = "misuse" /\ dst' = dst]_vars

\* C12: when Next reports completion the statement is reset in the same
\* call, and the reset leaves the bound values, the cached counts and the
\* name maps as they were; the next step, with no bind in between, returns
\* the statement's first row again, computed from the same bound values.
C12_CompletionResetKeepsBindings ==
    [][\A s \in Ids :
         Next(s, RvDone) /\ HandleUse(stmts, native, s) = "live"
         => /\ native'[s].pos = 0
            /\ native'[s].binds = native[s].binds
            /\ stmts' = stmts
            /\ NRows(stmts[s].sql) > 0 =>
                  /\ StepResults(stmts', native', s) = {RvRow, RvErr}
                  /\ NativeStep(native', s, RvRow)[s].pos = 1
                  /\ NativeStep(native', s, RvRow)[s].binds = native[s].binds]_vars

\* C12 witness: Next has reported completion for a query with a bound
\* value, cached counts and both name maps made.
C12_Witness ==
    /\ last.op = "Next" /\ ~last.row /\ last.err = "ok" /\ last.nat = "live"
    /\ NRows(stmts[last.s].sql) > 0
    /\ native[last.s].binds[1] # StorageNull
    /\ stmts[last.s].bindParameterCount # -1 /\ stmts[last.s].columnCount # -1
    /\ stmts[last.s].params.m # {} /\ stmts[last.s].cols.m # {}

\* C13: when sqlite3_step returns neither a row nor completion, Next resets
\* the statement, reports no row and returns an error wrapping the result
\* code; the statement is at its start afterwards.
C13_FailedStepResets ==
    [][\A s \in Ids, rv \in {RvErr, RvMisuse} :
         Next(s, rv)
         => /\ ~last'.row
            /\ last'.err = "native" /\ last'.code = rv
            /\ native'[s].pos = 0 /\ seen'[s] = 0]_vars

\* C13 witness: Next on a live statement has returned an error wrapping
\* the engine's result code.
C13_Witness ==
    /\ last.op = "Next" /\ last.err = "native" /\ last.code = RvErr
    /\ last.nat = "live" /\ ~last.row
    /\ native[last.s].state = "live" /\ native[last.s].pos = 0

\* C14: Bind with a number of values other than the parameter count, and
\* Scan with a number of destinations other than the column count, return
\* the arity error; no binding changes, the destination is not written and
\* no native bind or column value call is made.
C14_ArityMismatchIsLocal ==
    [][/\ \A s \in Ids, args \in NamesArgLists :
            /\ Bind(s, args, 0) /\ stmts[s].stmt = "set"
            /\ Len(args) # Len(ParamNames(stmts[s].sql))
            => /\ last'.err = "arity" /\ last'.vcalls = 0
               /\ native' = native /\ dst' = dst
       /\ \A s \in Ids, nargs \in 0..2 :
            /\ Scan(s, nargs, <<>>, {}) /\ stmts[s].stmt = "set"
            /\ nargs # Len(ColNames(stmts[s].sql))
            => /\ last'.err = "arity" /\ last'.vcalls = 0
               /\ native' = native /\ dst' = dst]_vars

\* C14 witness: a Bind with the wrong number of values has returned the
\* arity error on a statement whose first parameter had been bound.
C14_Witness ==
    /\ last.op = "Bind" /\ last.err = "arity" /\ last.vcalls = 0
    /\ native[last.s].binds[1] # StorageNull

IntegerLike == {"*int", "**int", "*int64", "**int64", "*byte", "**byte",
                "*bool", "**bool"}

FloatLike == {"*float64", "**float64"}

\* C16: scanning a column that is not Null returns the type mismatch error
\* exactly when CheckTypeMismatch is set and the destination is integer-like
\* with a Float, Text or Blob column, or float-like with a Text or Blob
\* column.
C16_TypeMismatchExactly ==
    [][\A s \in Ids, cv \in StorageValues :
         ScanByIndexCall(s, 0, cv) /\ cv.class # "Null"
         => (last'.err = "mismatch"
               <=> /\ stmts[s].CheckTypeMismatch
                   /\ \/ /\ dst.kind \in IntegerLike
                         /\ cv.class \in {"Float", "Text", "Blob"}
                      \/ /\ dst.kind \in FloatLike
                         /\ cv.class \in {"Text", "Blob"})]_vars

\* C16 witness: on a row, a Blob column scanned into a float destination
\* has returned the type mismatch error.
C16_Witness ==
    /\ last.op = "ScanByIndex" /\ last.err = "mismatch"
    /\ HasRow(stmts, native, last.s)
    /\ native[last.s].binds[1].class = "Blob"
    /\ dst.kind = "*float64" /\ stmts[last.s].CheckTypeMismatch

\* C17: scanning a Null column into a *T destination assigns the zero
\* value, reports wasNull and returns no error, with CheckTypeMismatch set
\* or not.
C17_NullGivesZeroValue ==
    [][\A s \in Ids, cv \in StorageValues :
         /\ ScanByIndexCall(s, 0, cv)
         /\ cv.class = "Null" /\ dst.kind \in SingleKinds
         => /\ dst'.n = 0 /\ dst'.b = <<>>
            /\ last'.null /\ last'.err = "ok"]_vars

\* C17 witness: on a row whose column is Null, a scan into a *int with
\* CheckTypeMismatch set has assigned 0 and reported wasNull.
C17_Witness ==
    /\ last.op = "ScanByIndex" /\ last.null /\ last.err = "ok"
    /\ HasRow(stmts, native, last.s)
    /\ native[last.s].binds[1] = StorageNull
    /\ stmts[last.s].CheckTypeMismatch
    /\ dst.kind = "*int" /\ dst.n = 0 /\ dst.b = <<>>

\* C18: on a row, scanning a Null column into a **T destination sets the
\* outer pointer to nil and assigns nothing through it; scanning a column
\* that is not Null (and passes the type check) returns no error and
\* leaves the destination holding the value, also when the outer pointer
\* is nil from an earlier Null.
C18_DoublePointerHoldsValue ==
    [][\A s \in Ids, cv \in StorageValues :
         /\ ScanByIndexCall(s, 0, cv)
         /\ dst.kind \in DoubleKinds /\ HasRow(stmts, native, s)
         => LET r == ScanFor(dst.kind, cv, stmts[s].CheckTypeMismatch)
            IN IF r.null
               THEN /\ dst'.outer = "nil" /\ dst'.n = dst.n /\ dst'.b = dst.b
                    /\ last'.err = "ok" /\ last'.null
               ELSE r.err = "ok" =>
                       /\ last'.err = "ok"
                       /\ dst'.outer = "set"
                       /\ dst'.n = r.n /\ dst'.b = r.b]_vars

\* C19: a successful Bind binds Null for a string of length 0 when
\* NullIfEmptyString is set, Text of length 0 for it when the setting is
\* off, and Text with the string's bytes for every other string.
C19_EmptyStringNullPolicy ==
    [][\A s \in Ids, args \in BindArgLists :
         Bind(s, args, 0) /\ last'.err = "ok"
         => \A i \in 1..Len(args) :
               args[i].t = "string" =>
                  native'[s].binds[i] =
                     IF Len(args[i].b) > 0 THEN StorageText(args[i].b)
                     ELSE IF cfg.NullIfEmptyString THEN StorageNull
                     ELSE StorageText(<<>>)]_vars

\* C19 witness: with NullIfEmptyString off a Bind has bound a Text of
\* length 0.
C19_Witness ==
    /\ last.op = "Bind" /\ last.err = "ok" /\ ~cfg.NullIfEmptyString
    /\ native[last.s].binds[1] = StorageText(<<>>)

\* The directly handled type that corresponds to a kind.
DirectOf(value) ==
    CASE value.t = "kind:String" -> HostValue("string", value.n, value.b)
      [] value.t = "kind:Int" -> HostValue("int64", value.n, value.b)
      [] value.t = "kind:Uint" -> HostValue("int64", value.n, value.b)
      [] value.t = "kind:Bool" -> HostValue("bool", value.n, value.b)
      [] value.t = "kind:Float" -> HostValue("float64", value.n, value.b)
      [] OTHER -> value

\* C20: a value bound through the kind-based dispatch is bound to the same
\* storage class and value as the value of the corresponding directly
\* handled type; so a string-like value of length 0 binds Null when
\* NullIfEmptyString is set.
C20_FallbackBindsLikeDirect ==
    [][\A s \in Ids, args \in BindArgLists :
         Bind(s, args, 0) /\ last'.err = "ok"
         => \A i \in 1..Len(args) :
               args[i].t \in {"kind:String", "kind:Int", "kind:Uint",
                              "kind:Bool", "kind:Float"} =>
                  native'[s].binds[i] =
                     BindByIndex(DirectOf(args[i]), cfg.NullIfEmptyString,
                                 cfg.NullIfZeroTime).v]_vars

\* ======================================================= claims C21..C30

\* C21 as stated: a successful Bind binds the zero time.Time as Null when
\* NullIfZeroTime is set and as Integer 0 when it is not; every other
\* time.Time is bound as the Integer of its Unix seconds.
C21_ZeroTimeBindsZero ==
    [][\A s \in Ids, args \in BindArgLists :
         Bind(s, args, 0) /\ last'.err = "ok"
         => \A i \in 1..Len(args) :
               args[i].t = "time.Time" =>
                  native'[s].binds[i] =
                     IF ~IsZero(args[i]) THEN StorageInteger(Unix(args[i]))
                     ELSE IF cfg.NullIfZeroTime THEN StorageNull
                     ELSE StorageInteger(0)]_vars

\* C21 amended: a successful Bind binds the zero time.Time as Null when
\* NullIfZeroTime is set; otherwise, and for every other time.Time, it
\* binds the Integer of the value's Unix seconds, which for the zero time
\* is the (negative) number of seconds from 1970 back to year 1, not 0.
C21_ZeroTimeBindsItsUnixSeconds ==
    [][\A s \in Ids, args \in BindArgLists :
         Bind(s, args, 0) /\ last'.err = "ok"
         => \A i \in 1..Len(args) :
               args[i].t = "time.Time" =>
                  /\ native'[s].binds[i] =
                        IF cfg.NullIfZeroTime /\ IsZero(args[i]) THEN StorageNull
                        ELSE StorageInteger(Unix(args[i]))
                  /\ IsZero(args[i]) => Unix(args[i]) = ZeroTimeUnix
                  /\ ZeroTimeUnix < 0]_vars

\* C21 witness: with NullIfZeroTime off a Bind has bound the Unix seconds
\* of the zero time.
C21_Witness ==
    /\ last.op = "Bind" /\ last.err = "ok" /\ ~cfg.NullIfZeroTime
    /\ native[last.s].binds[1] = StorageInteger(ZeroTimeUnix)

\* The integer types of the model's host values, signed and unsigned.
IntegerTypes == {"int", "int64", "byte", "kind:Int", "kind:Uint"}

\* C22: a successful Bind binds a signed or unsigned integer of any width
\* as the Integer equal to the host value; a Bind of an unsigned value
\* above the signed 64-bit maximum returns the overflow error and leaves
\* that parameter's binding as it was.
C22_IntegersBindUntruncated ==
    [][\A s \in Ids, args \in BindArgLists :
         Bind(s, args, 0) /\ last'.err \in {"ok", "overflow"}
         => \A i \in 1..Len(args) :
               args[i].t \in IntegerTypes =>
                  IF args[i].t = "kind:Uint" /\ args[i].n > MaxInt64
                  THEN /\ last'.err = "overflow"
                       /\ native'[s].binds[i] = native[s].binds[i]
                  ELSE last'.err = "ok" =>
                          native'[s].binds[i] = StorageInteger(args[i].n)]_vars

\* The destination type a value of a host type is scanned back into.
RoundKind(t) ==
    CASE t = "float32" -> "*kind:Float"
      [] t \in {"kind:String", "kind:Int", "kind:Uint", "kind:Bool",
                "kind:Float"} -> "*" \o t
      [] OTHER -> "*" \o t

\* The destination d holds the host value v.  A scanned time.Time is
\* time.Unix(n, 0) (b = <<85>>) or the zero time.
SameValue(v, d) ==
    IF v.t = "time.Time"
    THEN IF d.b = <<85>> THEN v.n = d.n /\ v.b = <<>> ELSE IsZero(v)
    ELSE d.n = v.n /\ d.b = v.b

\* C23: a value of a supported host type bound by a successful Bind and
\* scanned, on a row, from the column holding it into a new destination
\* of the same type, is scanned without error and the destination holds
\* exactly the bound value, with CheckTypeMismatch set or not; scanned into
\* an integer-like or float-like destination the bound value gives the
\* type mismatch error exactly when CheckTypeMismatch is set and the
\* conversion is lossy, and is coerced without error otherwise.
C23_BindScanRoundTrip ==
    [][\A s \in Ids, args \in BindArgLists :
         Bind(s, args, 0) /\ last'.err = "ok"
         => \A i \in 1..Len(args), check \in BOOLEAN :
               LET cv == native'[s].binds[i]
                   r == ScanByIndex(NewDest(RoundKind(args[i].t)), cv, check)
               IN /\ args[i].t \notin {"nil", "kind:Struct"} =>
                        r.err = "ok" /\ SameValue(args[i], r.d)
                  /\ \A kind \in {"*int", "*int64", "*byte", "*bool",
                                   "*float64"} :
                        cv.class # "Null" =>
                          (ScanByIndex(NewDest(kind), cv, check).err =
                              IF check
                                 /\ checkTypeMismatch(cv.class,
                                       IF kind = "*float64" THEN "Float"
                                       ELSE "Integer") # "ok"
                              THEN "mismatch" ELSE "ok")]_vars

\* C24: an Exec whose bind succeeds makes exactly one sqlite3_step call
\* with the values just bound and resets the statement whatever the step
\* returned; it returns nil for completion and an error wrapping the
\* result code for anything else, a row included.  The statement is at its
\* start afterwards, so the next Exec can bind and step again.
C24_ExecStepsOnceAndResets ==
    [][\A s \in Ids, args \in ExecArgLists, failAt \in 0..2,
          rv \in {RvRow, RvDone, RvErr} :
         /\ Exec(s, args, failAt, rv)
         /\ BindArgs(stmts, native, s, args, 1, cfg, failAt).err = "ok"
         /\ Len(args) = Len(ParamNames(stmts[s].sql))
         => /\ last'.steps = 1
            /\ native'[s].pos = 0 /\ seen'[s] = 0
            /\ \A i \in 1..Len(args) :
                  native'[s].binds[i] =
                     BindByIndex(args[i], cfg.NullIfEmptyString,
                                 cfg.NullIfZeroTime).v
            /\ rv = RvDone => last'.err = "ok"
            /\ rv # RvDone => last'.err = "native" /\ last'.code = rv
            /\ NativeBindResult(stmts', native', s, 1, RvOk) = RvOk]_vars

\* C24 witness: an Exec of a query, with values bound to both parameters,
\* has returned the error that wraps SQLITE_ROW and left the statement at
\* its start.
C24_Witness ==
    /\ last.op = "Exec" /\ last.err = "native" /\ last.code = RvRow
    /\ last.steps = 1 /\ native[last.s].pos = 0
    /\ native[last.s].binds = <<StorageText(<<97>>), StorageInteger(1)>>

\* C25: a Select whose bind, if any, succeeded invokes the row callback
\* once for each row the statement yields from its current position, in
\* row order and with that row current, until it returns: nil when the
\* engine reported completion, every remaining row having been passed to
\* the callback; the step error when a step failed; the callback's error
\* when an invocation failed, that invocation being the last one.
C25_SelectCallsBackPerRow ==
    [][\A s \in Ids, args \in ExecArgLists, failAt \in 0..1,
          plan \in SelectPlans :
         /\ Select(s, args, failAt, plan)
         /\ last'.err \in {"ok", "native", "callback"} /\ last'.steps > 0
         /\ stmts[s].stmt = "set"
         => LET calls == last'.calls
                k == Len(calls)
                from == IF Len(args) > 0 THEN 0 ELSE native[s].pos
            IN /\ \A i \in 1..k :
                     calls[i] = from + i /\ calls[i] <= NRows(stmts[s].sql)
               /\ last'.steps = IF last'.err = "callback" THEN k ELSE k + 1
               /\ last'.err = "ok" =>
                     from + k = NRows(stmts[s].sql) /\ native'[s].pos = 0
               /\ last'.err = "native" =>
                     last'.code = RvErr /\ plan.failStep = k + 1
               /\ last'.err = "callback" => plan.failCall = k
               /\ plan.failCall \in 1..k => last'.err = "callback"]_vars

\* C25 witness: a Select has passed every row of a query to the callback
\* and returned nil.
C25_Witness ==
    /\ last.op = "Select" /\ last.err = "ok"
    /\ Len(last.calls) = MaxRows /\ MaxRows > 1
    /\ last.calls[1] = 1 /\ last.calls[MaxRows] = MaxRows

\* C26: the error of a failed native call on a statement gives the
\* statement's SQL text: the error a Prepare returns when its bind failed
\* (the statement is finalized by then), and the error a Next returns,
\* also once the statement has been finalized.
C26_ErrorsCarrySQL ==
    [][/\ last'.op = "Prepare" /\ last'.err = "bind" =>
             last'.errsql \in {"field", "handle"}
       /\ last'.op = "Next" /\ last'.err = "native" /\ last'.nat = "live" =>
             SQLSource(stmts', native', last'.s) \in {"field", "handle"}
       /\ \A s \in Ids, rvClear \in Rvs, rvFin \in Rvs :
             /\ Finalize(s, rvClear, rvFin)
             /\ last.op = "Next" /\ last.err = "native" /\ last.s = s
             => SQLSource(stmts', native', s) \in {"field", "handle"}]_vars

\* C27: a scan of a Text column into a time.Time picks the layout from the
\* length of the text alone: 5 -> 15:04, 8 -> 15:04:05, 10 -> the date,
\* 12 -> 15:04:05.000, 16, 19 and 23 -> date and time to the minute, the
\* second and the millisecond, any other length -> the full layout with a
\* zone; for 16, 19, 23 and any other length the T variant is chosen
\* exactly when the byte at offset 10 is T, the space variant otherwise,
\* and offset 10 is read only from a text of more than 10 bytes.
C27_LayoutFromLength ==
    [][\A s \in Ids :
         /\ HasRow(stmts, native, s)
         /\ ScanByIndexCall(s, 0, native[s].binds[1])
         /\ dst.kind = "*time.Time" /\ native[s].binds[1].class = "Text"
         => LET txt == native[s].binds[1].b
                n == Len(txt)
                l == last'.layout
            IN /\ l.form =
                    CASE n = 5 -> "15:04"
                      [] n = 8 -> "15:04:05"
                      [] n = 10 -> "2006-01-02"
                      [] n = 12 -> "15:04:05.000"
                      [] n = 16 -> "2006-01-02 15:04"
                      [] n = 19 -> "2006-01-02 15:04:05"
                      [] n = 23 -> "2006-01-02 15:04:05.999"
                      [] OTHER -> "2006-01-02 15:04:05.999Z07:00"
               /\ n \in {5, 8, 10, 12} => l.sep = "" /\ ~l.read10
               /\ n \notin {5, 8, 10, 12} =>
                     /\ l.sep = "T" <=> n > 10 /\ txt[11] = 84
                     /\ l.sep # "T" => l.sep = " "
               /\ l.read10 => n > 10]_vars

\* C27 witness: a text of 19 bytes with T at offset 10 has been scanned
\* into a time.Time with the T variant of the layout.
C27_Witness ==
    /\ last.op = "ScanByIndex" /\ dst.kind = "*time.Time"
    /\ last.layout.form = "2006-01-02 15:04:05" /\ last.layout.sep = "T"
    /\ HasRow(stmts, native, last.s)
    /\ Len(native[last.s].binds[1].b) = 19

\* C28: on a row, a scan into a nil destination reads and writes nothing,
\* reports wasNull false and returns no error; a Scan or NamedScan with
\* nil in the place of some destinations fills the other destinations as
\* the call without the nil ones does.
C28_NilDestinationSkips ==
    [][\A s \in Ids :
         HasRow(stmts, native, s) /\ Len(ColNames(stmts[s].sql)) = 2
         => LET check == stmts[s].CheckTypeMismatch
                cvs == native[s].binds
            IN /\ \A index \in 0..1 :
                     ScanByIndexCall(s, index, cvs[index + 1]) /\ dst.kind = "nil"
                     => dst' = dst /\ ~last'.null /\ last'.err = "ok"
               /\ Scan(s, 2, cvs, {1}) /\ dst.kind # "nil"
                     => /\ dst' = ScanByIndex(dst, cvs[2], check).d
                        /\ last'.err = ScanByIndex(dst, cvs[2], check).err
               /\ Scan(s, 2, cvs, {2}) /\ dst.kind # "nil"
                     => /\ dst' = ScanByIndex(dst, cvs[1], check).d
                        /\ last'.err = ScanByIndex(dst, cvs[1], check).err
               /\ Scan(s, 2, cvs, {1, 2}) => dst' = dst /\ last'.err = "ok"
               /\ NamedScan(s, "y", FALSE, TRUE, cvs[2]) /\ dst.kind # "nil"
                     => /\ dst' = ScanByIndex(dst, cvs[2], check).d
                        /\ last'.err = ScanByIndex(dst, cvs[2], check).err]_vars

\* C28 witness: a Scan of a row with two columns has skipped the first
\* column and filled the destination from the second.
C28_Witness ==
    /\ last.op = "Scan" /\ last.err = "ok" /\ last.vcalls = 1
    /\ HasRow(stmts, native, last.s)
    /\ Len(native[last.s].binds) = 2
    /\ native[last.s].binds[1] = StorageInteger(1)
    /\ native[last.s].binds[2] = StorageInteger(0)
    /\ dst.kind = "*int64" /\ dst.n = 0

\* The number of entries of the cache that are the Stmt s.
Idle(c, s) == Cardinality({i \in 1..Len(c) : c[i] = s})

CheckedOut(s) ==
    native[s].state = "live" /\ out[s] = 1 /\ Idle(cache, s) = 0

IdleOnce(s) ==
    native[s].state = "live" /\ out[s] = 0 /\ Idle(cache, s) = 1

Destroyed(s) ==
    native[s].state = "dead" /\ out[s] = 0 /\ Idle(cache, s) = 0

\* C30: on a live connection every handle ever compiled is checked out by
\* one statement, or idle in the cache once, or destroyed, and in one of
\* the three only; so no live handle is out of reach of both a holder and
\* the cache.
C30_HandleInOneCondition ==
    \A s \in Ids :
      stmts[s].made => CheckedOut(s) \/ IdleOnce(s) \/ Destroyed(s)

\* ------------------------------------------------------ claims C31..C40
\* C31: a Finalize of a statement whose handle sqlite3_finalize has
\* already been called on, with success or with an error, does not call
\* sqlite3_finalize on that handle again.
C31_NativeFinalizeAtMostOnce ==
    [][\A s \in Ids, rvClear \in Rvs, rvFin \in Rvs :
         Finalize(s, rvClear, rvFin) /\ native[s].state = "dead"
         => IF FinalizeUsesCache(stmts, db, s)
            THEN s \notin release(stmts, native, cache, db, s, rvClear,
                                  rvFin).fin
            ELSE ~finalize(stmts, native, db, s, rvFin).called]_vars

\* C32: every statement Prepare returns has CheckTypeMismatch and
\* Cacheable set, a statement taken from the cache included; a statement
\* compiled by the internal prepare has Cacheable unset.
C32_ReturnedFlags ==
    [][\A cmd \in Texts, bind \in {"none", "ok", "fail"}, rvFin \in Rvs :
         /\ Prepare(cmd, bind, RvOk, rvFin) /\ last'.s # 0
             => /\ stmts'[last'.s].CheckTypeMismatch
                /\ stmts'[last'.s].Cacheable
         /\ (\E x \in Ids : ~stmts[x].made)
             => LET p == prepare(stmts, native, db, cmd, bind, RvOk, rvFin)
                IN p.s # 0 => ~p.o[p.s].Cacheable]_vars

\* The value NamedBind has bound to parameter p once the pairs before
\* position k are bound: that of the last such pair that names p, else
\* the value p had.
NamedBound(s, pairs, k, p) ==
    LET js == {j \in 1..(k - 1) :
                 NativeParameterIndex(stmts, s, pairs[j][1].name) = p}
    IN IF js = {} THEN native[s].binds[p]
       ELSE LET j == CHOOSE x \in js : \A y \in js : y <= x
            IN BindByIndex(pairs[j][2], cfg.NullIfEmptyString,
                           cfg.NullIfZeroTime).v

\* C33: a Bind or NamedBind that fails at argument position k has bound
\* the arguments before k and left every other parameter as it was; one
\* that fails on the number of arguments has bound nothing.
C33_BindNotAtomic ==
    [][\A s \in Ids, failAt \in 0..2 :
         /\ \A args \in PartialArgLists :
              /\ last'.op = "Bind" /\ last'.s = s /\ last'.err # "ok"
              /\ Bind(s, args, failAt)
              => IF last'.err = "arity"
                 THEN native'[s].binds = native[s].binds /\ last'.vcalls = 0
                 ELSE /\ last'.at \in 1..Len(args)
                      /\ \A p \in 1..Len(native[s].binds) :
                           native'[s].binds[p] =
                             IF p < last'.at
                             THEN BindByIndex(args[p], cfg.NullIfEmptyString,
                                              cfg.NullIfZeroTime).v
                             ELSE native[s].binds[p]
         /\ \A pairs \in PartialPairLists, odd \in BOOLEAN :
              /\ last'.op = "NamedBind" /\ last'.s = s /\ last'.err # "ok"
              /\ NamedBind(s, pairs, odd, failAt)
              => IF last'.err = "arity"
                 THEN native'[s].binds = native[s].binds /\ last'.vcalls = 0
                 ELSE /\ last'.at \in 1..Len(pairs)
                      /\ \A p \in 1..Len(native[s].binds) :
                           native'[s].binds[p] =
                             NamedBound(s, pairs, last'.at, p)]_vars

\* C33 witness: a Bind has failed on its second argument, an unsupported
\* type, after binding the first; the second parameter still has the
\* text an earlier Bind gave it.
C33_Witness ==
    /\ last.op = "Bind" /\ last.err = "unsupported" /\ last.at = 2
    /\ native[last.s].binds = <<StorageInteger(1), StorageText(<<97>>)>>

\* The numeric and bool destinations.
NumericKinds == {"*int", "*int64", "*byte", "*bool", "*float64"}

NumericDoubleKinds == {"**int", "**int64", "**byte", "**bool", "**float64"}

\* C34: when a scan on a row returns the type mismatch error, a **T
\* numeric or bool destination is left as it was, outer pointer and
\* pointed-to value, and a *T numeric or bool destination holds the value
\* the engine coerced the column to.
C34_MismatchWrites ==
    [][\A s \in Ids, cv \in StorageValues :
         /\ ScanByIndexCall(s, 0, cv) /\ HasRow(stmts, native, s)
         /\ last'.err = "mismatch"
         => /\ dst.kind \in NumericDoubleKinds => dst' = dst
            /\ dst.kind \in NumericKinds
                 => dst'.n = (CASE dst.kind = "*int" -> ColumnInt(cv)
                                [] dst.kind = "*int64" -> ColumnInt64(cv)
                                [] dst.kind = "*byte" -> byte(ColumnInt(cv))
                                [] dst.kind = "*bool" ->
                                      IF ColumnInt(cv) = 1 THEN 1 ELSE 0
                                [] OTHER -> ColumnDouble(cv))]_vars

\* C34 witness: a scan of a Text column into a new *int64 has returned the
\* type mismatch error and the destination holds the coerced value 0.
C34_Witness ==
    /\ last.op = "ScanByIndex" /\ last.err = "mismatch"
    /\ HasRow(stmts, native, last.s)
    /\ native[last.s].binds[1] = StorageText(<<97>>)
    /\ dst.kind = "*int64" /\ dst.n = 0

\* C35: on a row, ScanByIndex into a destination of a supported type
\* returns for a column of every storage class; it never panics.
C35_ScanReturns ==
    [][\A s \in Ids, cv \in StorageValues :
         /\ ScanByIndexCall(s, 0, cv) /\ HasRow(stmts, native, s)
         /\ dst.kind \in SingleKinds
         => last'.err # "panic"]_vars

C37_OneOpenRows ==
    [][\A s \in Ids :
         /\ drv'[s].open <= 1
         /\ \A args \in QueryArgLists, failAt \in 0..1 :
              Query(s, args, failAt)
              => IF drv[s].open > 0
                 THEN last'.err = "rows open" /\ native' = native
                 ELSE IF last'.err = "ok"
                 THEN drv'[s].open = 1 /\ drv'[s].rowsRef
                 ELSE /\ last'.err # "rows open"
                      /\ drv'[s].open = 0 /\ ~drv'[s].rowsRef]_vars

\* C38: a Close of a driver statement with a Rows open finalizes nothing;
\* the close of that Rows finalizes the statement; a close of a Rows with
\* no Close of the statement pending only resets the statement; whatever
\* the number of Close calls, Finalize is called on the statement at most
\* once.
C38_DeferredCloseFinalizesOnce ==
    [][\A s \in Ids, rvClear \in Rvs, rvFin \in Rvs :
         /\ StmtClose(s, rvClear, rvFin) /\ drv[s].open > 0
             => /\ drv'[s].finalizes = drv[s].finalizes
                /\ drv'[s].pendingClose
                /\ UNCHANGED <<stmts, native, cache>>
         /\ \A again \in BOOLEAN :
              RowsClose(s, again, rvClear, rvFin)
              => IF drv[s].pendingClose
                 THEN drv'[s].finalizes = 1 /\ last'.op = "Finalize"
                 ELSE /\ drv'[s].finalizes = drv[s].finalizes
                      /\ last'.op = "Reset" /\ native'[s].pos = 0
                      /\ UNCHANGED <<stmts, cache>>
         /\ drv'[s].pendingClose => drv'[s].finalizes <= 1]_vars

\* C40: ExecDml returns -1 with the error when the bind or the execution
\* fails and the connection's change count when it succeeds; Insert
\* returns -1 with the error on failure, -1 with no error when the
\* execution succeeds and the change count is 0, and the connection's
\* last inserted rowid with no error otherwise.  The call succeeds
\* exactly when the one step was taken and reported completion.
C40_InsertAndExecDmlResults ==
    [][\A s \in Ids, args \in DmlArgLists, failAt \in 0..1,
         rv \in {RvRow, RvDone, RvErr}, changes \in 0..MaxChanges :
         (last'.op = "Exec" /\ last'.s = s /\ res'.op # "")
         => LET failed == ~(last'.steps = 1 /\ rv = RvDone)
            IN /\ ExecDml(s, args, failAt, rv, changes)
                  => /\ failed <=> res'.err # "ok"
                     /\ res'.err = last'.err
                     /\ res'.n = IF failed THEN -1 ELSE changes
               /\ \A rowid \in 1..MaxRowid :
                    Insert(s, args, failAt, rv, changes, rowid)
                    => /\ failed <=> res'.err # "ok"
                       /\ res'.err = last'.err
                       /\ res'.n = IF failed \/ changes = 0 THEN -1
                                   ELSE rowid]_vars

\* An Insert that succeeded and changed nothing has returned -1 and no
\* error.
C40_Witness ==
    /\ res.op = "Insert" /\ res.err = "ok" /\ res.n = -1
    /\ last.op = "Exec" /\ last.steps = 1

\* C39: while the BLOB handle is open its offset is between 0 and the
\* size of the BLOB, and the last native read or write was issued for a
\* byte range inside the BLOB.
C39_OffsetInRange ==
    blob.bl = "open"
    => /\ 0 <= blob.offset /\ blob.offset <= blob.bytes
       /\ blob.io.op # "" => /\ 0 <= blob.io.off
                              /\ blob.io.off + blob.io.n <= blob.io.of

====
